---- MODULE Spec2Model ----
(***************************************************************************)
(* LimitWatcher provider orchestration: the provider registry, the usage   *)
(* cache, the background scheduler and the on-demand commands, with the    *)
(* tokio RwLocks that guard them.                                          *)
(*                                                                         *)
(* Tasks are the scheduler loop (scheduler.rs start) and a fixed pool of   *)
(* command invocations (commands/mod.rs).  Every `.await` on a lock or on  *)
(* the network is a position of a task (pc); everything between two       *)
(* awaits is one step.                                                     *)
(***************************************************************************)
EXTENDS Integers, Sequences, FiniteSets, Bags, TLC

(* ------------------------------------------------------------------ *)
(* Names                                                               *)
(* ------------------------------------------------------------------ *)

\* ProviderRegistry::new registers these four providers (providers/mod.rs).
Providers == {"copilot", "claude", "gemini", "antigravity"}

\* Provider ids the command inputs are drawn from.
CmdProviders == {"copilot", "gemini"}

\* Provider ids the auth commands are called with (antigravity is claude's
\* twin).
AuthProviders == {"copilot", "gemini", "claude"}

\* Provider ids set_provider_enabled is called with.
EnableInputs == {"copilot", "gemini"}

Sched == "sched"
CmdTasks == {"c1", "c2"}
Tasks == CmdTasks \cup {Sched}

\* The three kinds of tokio RwLock: Arc<RwLock<ProviderRegistry>>,
\* Arc<RwLock<CacheManager>> and one Arc<RwLock<dyn Provider>> per provider.
Locks == {"registry", "cache"} \cup Providers

NoProvider == "-"
NoToken == "none"
NoResponse == "-"

\* RefreshInterval (scheduler.rs)
Manual == "Manual"
RefreshInterval == {"Manual", "1m", "2m", "5m", "15m"}

\* Intervals set_interval is called with.
IntervalInputs == {"Manual", "1m"}

\* Option<Duration> of to_duration: 0 stands for None.
NoDuration == 0

\* The Manual-mode poll of the loop, in seconds.
ManualPollSecs == 10

(* ------------------------------------------------------------------ *)
(* Bounds                                                              *)
(* ------------------------------------------------------------------ *)

\* Utc::now() is a counter; fetches stop succeeding when it is used up.
MaxClock == 2

\* Saturation of the history counters.
MaxCount == 2

\* How many commands the front end invokes in one run.
MaxCommands == 3

\* The device-flow poll interval stops growing here (slow_down adds 5 s).
MaxPollInterval == 20

(* ------------------------------------------------------------------ *)
(* State                                                               *)
(* ------------------------------------------------------------------ *)

VARIABLES
    enabled,    \* ProviderRegistry.enabled : id -> bool
    cache,      \* CacheManager.cache.providers : id -> UsageData (0 = no entry,
                \*   n > 0 = UsageData{last_updated: n, error: None},
                \*   n < 0 = UsageData{last_updated: -n, error: Some(..)})
    clock,      \* Utc::now()
    interval,   \* Scheduler.interval
    running,    \* Scheduler.running
    lk,         \* the RwLocks: lock -> [rd, wr, q]
    pc,         \* position of every task
    prov,       \* the provider a task works on
    flag,       \* the `enabled` argument of set_provider_enabled
    usage,      \* the UsageData a task's fetch_usage returned
    cmdsLeft,   \* how many more commands the front end will invoke
    cur,        \* scheduler: current_interval
    sleepDur,   \* scheduler: the duration of the sleep in progress
    todo,       \* scheduler: enabled_providers() not yet iterated
    snap,       \* scheduler: enabled_providers() of this cycle
    calls,      \* history: the fetch_usage calls of this cycle, in order
    events,     \* the events emitted in this cycle, in order
    cop,        \* CopilotProvider fields
    kr,         \* the OS keychain entry copilot_access_token
    gem,        \* GeminiProvider fields
    gfile,      \* ~/.gemini/oauth_creds.json and its .tmp sibling
    hist,       \* history counters (see Init)
    ftok,       \* per task: fetch_usage's expiry check and the token it uses
    agg,        \* the pure parts of fetch_usage, input and result: the
                \*   buckets given to aggregate_quotas, or the response
                \*   status and retry-after header the status match is given;
                \*   or the OS keychain's entries with the latest call of
                \*   storage/keyring.rs and its result
    warn,       \* usage figures upstream reports, NotificationTracker.sent,
                \* the send_warning calls made and the notifications shown
    disk        \* usage_cache.json in the app data directory, whether the
                \* storage can fail, and how the latest save() ended

vars == <<enabled, cache, clock, interval, running, lk, pc, prov, flag, usage,
          cmdsLeft, cur, sleepDur, todo, snap, calls, events, cop, kr, gem, gfile,
          hist, ftok, agg, warn, disk>>

schedState == <<interval, running>>
schedLocals == <<cur, sleepDur, todo, snap, calls, events>>
provVars == <<cop, kr, gem, gfile>>
taskLocals == <<prov, flag, usage, cmdsLeft>>

(* ------------------------------------------------------------------ *)
(* tokio::sync::RwLock                                                 *)
(*                                                                     *)
(* Fair (write-preferring): waiters queue first-in first-out; a read   *)
(* is granted at once only when no writer holds the lock and nobody    *)
(* waits; a release hands the lock to the waiters at the head of the   *)
(* queue for as long as they are compatible.                           *)
(* ------------------------------------------------------------------ *)

FreeLock == [rd |-> {}, wr |-> {}, q |-> <<>>]

CanGrant(L, mode) ==
    IF mode = "r" THEN L.wr = {} ELSE L.wr = {} /\ L.rd = {}

Grant(L, t, mode) ==
    IF mode = "r" THEN [L EXCEPT !.rd = @ \cup {t}] ELSE [L EXCEPT !.wr = {t}]

\* lock.read().await / lock.write().await up to the point where it suspends.
Request(L, t, mode) ==
    IF L.q = <<>> /\ CanGrant(L, mode)
    THEN Grant(L, t, mode)
    ELSE [L EXCEPT !.q = Append(@, <<t, mode>>)]

RECURSIVE Drain(_)
Drain(L) ==
    IF L.q # <<>> /\ CanGrant(L, Head(L.q)[2])
    THEN Drain(Grant([L EXCEPT !.q = Tail(@)], Head(L.q)[1], Head(L.q)[2]))
    ELSE L

\* Dropping a guard.
Release(L, t) == Drain([L EXCEPT !.rd = @ \ {t}, !.wr = @ \ {t}])

Holds(L, t) == t \in L.rd \cup L.wr

Queued(L, t) == \E i \in 1..Len(L.q) : L.q[i][1] = t

(* ------------------------------------------------------------------ *)
(* Pure functions                                                      *)
(* ------------------------------------------------------------------ *)

\* to_duration with Manual => Some(Duration::from_secs(10)): the 10 s poll
\* taken for a refresh interval.
to_duration_manual_timed(i) ==
    CASE i = "Manual" -> ManualPollSecs
      [] i = "1m" -> 60
      [] i = "2m" -> 120
      [] i = "5m" -> 300
      [] i = "15m" -> 900

\* RefreshInterval::to_duration, in seconds (NoDuration = None).
to_duration(i) ==
    CASE i = "Manual" -> NoDuration
      [] i = "1m" -> 60
      [] i = "2m" -> 120
      [] i = "5m" -> 300
      [] i = "15m" -> 900

\* ProviderRegistry::is_enabled
is_enabled(en, id) == IF id \in DOMAIN en THEN en[id] ELSE FALSE

\* enabled_providers without the filter on the flag (all_provider_names).
enabled_providers_unfiltered(en) == {id \in Providers : id \in DOMAIN en}

\* ProviderRegistry::enabled_providers (a HashMap iteration: a set).
enabled_providers(en) == {id \in Providers : is_enabled(en, id)}

\* ProviderRegistry::get_provider(id).is_some()
get_provider(id) == id \in Providers

\* set_enabled without the contains_key test.
set_enabled_unchecked(en, id, b) ==
    [x \in DOMAIN en \cup {id} |-> IF x = id THEN b ELSE en[x]]

\* ProviderRegistry::set_enabled
set_enabled(en, id, b) ==
    IF id \in Providers THEN [en EXCEPT ![id] = b] ELSE en

Bump(n) == IF n < MaxCount THEN n + 1 ELSE n

(* ------------------------------------------------------------------ *)
(* Initial state: after tauri's setup hook (lib.rs run)                *)
(* ------------------------------------------------------------------ *)

\* CopilotProvider::new: the token is whatever the keychain gives; a keychain
\* error leaves it None.
CopilotNew(entry, readOk) ==
    [token |-> IF readOk THEN entry ELSE NoToken,
     pending_device_code |-> FALSE,
     poll_interval |-> 5]

\* Contents of a file that is a partly written or otherwise broken document.
Unparseable == {"partial", "garbage"}

\* read_to_string and serde_json::from_str::<GeminiCredentials> both succeed.
Parses(file) == file # NoToken /\ file \notin Unparseable

\* GeminiProvider::new: the credentials are the CLI's file when it parses.
GeminiNew(file) ==
    [credentials |-> IF Parses(file) THEN file ELSE NoToken, project_id |-> FALSE]

\* The state after setup, for a keychain entry, a keychain that answers or
\* not, a CLI credential file, and a number of commands to come.
\* No fetch_usage call in progress.
NoFetch == [need |-> FALSE, use |-> NoToken]

\* What a command handed back last, as far as it is a ProviderStatus (its
\* enabled and authenticated flags) or the error for an id that nothing is
\* registered under: nothing yet.
NoStatus == [res |-> "none", enabled |-> FALSE, authenticated |-> FALSE]

\* Err(format!("Provider '{}' not found", provider))
NotFound == [res |-> "not found", enabled |-> FALSE, authenticated |-> FALSE]

\* ProviderStatus::from((name, data, enabled, authenticated)), the two flags.
ProviderStatus(enabled_, authenticated_) ==
    [res |-> "ok", enabled |-> enabled_, authenticated |-> authenticated_]

InitState(entry, readOk, file, n) ==
    /\ enabled = [p \in Providers |-> FALSE]
    /\ cache = [p \in Providers |-> 0]
    /\ clock = 1
    /\ interval = "5m"
    /\ running = TRUE
    /\ lk = [l \in Locks |-> FreeLock]
    /\ pc = [t \in Tasks |-> IF t = Sched THEN "top" ELSE "idle"]
    /\ prov = [t \in Tasks |-> NoProvider]
    /\ flag = [t \in Tasks |-> FALSE]
    /\ usage = [t \in Tasks |-> 0]
    /\ cmdsLeft = n
    /\ cur = "5m"
    /\ sleepDur = 0
    /\ todo = {}
    /\ snap = {}
    /\ calls = <<>>
    /\ events = <<>>
    /\ kr = entry
    /\ cop = CopilotNew(entry, readOk)
    /\ gfile = [main |-> file, tmp |-> NoToken]
    /\ gem = GeminiNew(file)
    /\ hist = [refreshAfterStop |-> 0, sleepAfterStop |-> 0, readsSinceSet |-> 0,
               ops |-> [p \in Providers |-> <<>>],
               resp |-> NoResponse, slow |-> 0, negotiated |-> 5,
               status |-> NoStatus]
    /\ ftok = [t \in Tasks |-> NoFetch]

\* A user who signed in to both services in an earlier run.
\* Option<DateTime<Utc>>::None.
NoTime == 0

\* overall_percent of an empty bucket list: unwrap_or(100.0).
DefaultPercent == 100

\* aggregate_quotas has not been called.
NoAgg == [buckets |-> <<>>, done |-> FALSE, model_quotas |-> <<>>,
          overall_percent |-> 0, overall_reset |-> NoTime, usage |-> <<>>]

\* NotificationTracker::new, nothing asked or shown yet, and an upstream that
\* reports no quota at all (limits of 0).
NoWarn == [up |-> [session_used |-> 0, session_limit |-> 0,
                   weekly_used |-> 0, weekly_limit |-> 0],
           sent |-> {}, raised |-> EmptyBag, last |-> {}, shown |-> EmptyBag]

\* No usage_cache.json yet, storage in order, nothing saved.
NoDisk == [state |-> "absent", doc |-> {}, faulty |-> FALSE, last |-> "none"]

\* CacheManager::new: load_from_file(path).unwrap_or_default().  A file that
\* cannot be read or parsed gives the empty map; a missing `error` is None.
CacheManager_new(d) ==
    IF d.state # "whole"
    THEN [p \in Providers |-> 0]
    ELSE [p \in Providers |->
            IF \E e \in d.doc : e.id = p
            THEN LET e == CHOOSE x \in d.doc : x.id = p
                 IN  IF e.error = "null" THEN e.last_updated ELSE 0 - e.last_updated
            ELSE 0]

\* save that reports success without having written.
save_not_written(d, c) == {[d EXCEPT !.last = "ok"]}

\* CacheManager::save: create_dir_all, to_string_pretty of the whole map,
\* fs::write (create-and-truncate, then write): the disks it can leave.  On a
\* storage that can fail, the error comes before the file is opened or after
\* it was truncated.
save(d, c) ==
    LET json == {[id |-> p,
                  last_updated |-> IF c[p] < 0 THEN 0 - c[p] ELSE c[p],
                  error |-> IF c[p] < 0 THEN "some" ELSE "null"] :
                     p \in {q \in Providers : c[q] # 0}}
    IN  {[d EXCEPT !.state = "whole", !.doc = json, !.last = "ok"]}
        \cup IF d.faulty
             THEN {[d EXCEPT !.last = "unchanged"],
                   [d EXCEPT !.state = "partial", !.doc = {}, !.last = "partial"]}
             ELSE {}

Init == InitState("t1", TRUE, "cli", MaxCommands) /\ agg = NoAgg /\ warn = NoWarn /\ disk = NoDisk

(* ------------------------------------------------------------------ *)
(* Scheduler mutators (scheduler.rs Scheduler::set_interval / stop)    *)
(* ------------------------------------------------------------------ *)

set_interval(i) ==
    /\ interval' = i
    /\ hist' = [hist EXCEPT !.readsSinceSet = 0]
    /\ UNCHANGED <<enabled, cache, clock, ftok, agg, warn, disk, running, lk, pc, taskLocals,
                   schedLocals, provVars>>

stop ==
    /\ running
    /\ running' = FALSE
    /\ UNCHANGED <<enabled, cache, clock, ftok, agg, warn, disk, interval, lk, pc, taskLocals,
                   schedLocals, provVars, hist>>

(* ------------------------------------------------------------------ *)
(* The scheduler loop (scheduler.rs start)                             *)
(* ------------------------------------------------------------------ *)

\* let current_interval = *scheduler.interval.read().await;
SchedReadInterval ==
    /\ pc[Sched] = "top"
    /\ cur' = interval
    /\ pc' = [pc EXCEPT ![Sched] = "chk"]
    /\ hist' = [hist EXCEPT !.readsSinceSet = Bump(@)]
    /\ calls' = <<>>
    /\ events' = <<>>
    /\ snap' = {}
    /\ UNCHANGED <<enabled, cache, clock, schedState, ftok, agg, warn, disk, lk, taskLocals,
                   sleepDur, todo, provVars>>

\* The loop without its `if !*running.read().await { break; }`.
SchedCheckRunning_never_breaks ==
    /\ pc[Sched] = "chk"
    /\ pc' = [pc EXCEPT ![Sched] = "go"]
    /\ UNCHANGED <<enabled, cache, clock, schedState, ftok, agg, warn, disk, lk, taskLocals,
                   schedLocals, provVars, hist>>

\* if !*scheduler.running.read().await { break; }
SchedCheckRunning ==
    /\ pc[Sched] = "chk"
    /\ pc' = [pc EXCEPT ![Sched] = IF running THEN "go" ELSE "stopped"]
    /\ UNCHANGED <<enabled, cache, clock, schedState, ftok, agg, warn, disk, lk, taskLocals,
                   schedLocals, provVars, hist>>

\* if let Some(duration) = current_interval.to_duration() { sleep(duration) }
\* else { sleep(10s) }
SchedSleep ==
    /\ pc[Sched] = "go"
    /\ IF to_duration(cur) # NoDuration
       THEN /\ sleepDur' = to_duration(cur)
            /\ pc' = [pc EXCEPT ![Sched] = "sleep_timed"]
       ELSE /\ sleepDur' = ManualPollSecs
            /\ pc' = [pc EXCEPT ![Sched] = "sleep_manual"]
    /\ hist' = [hist EXCEPT !.sleepAfterStop = IF running THEN @ ELSE Bump(@)]
    /\ UNCHANGED <<enabled, cache, clock, schedState, ftok, agg, warn, disk, lk, taskLocals,
                   cur, todo, snap, calls, events, provVars>>

\* Manual mode: the 10 s sleep is over, back to the top of the loop.
SchedWakeManual ==
    /\ pc[Sched] = "sleep_manual"
    /\ sleepDur' = 0
    /\ pc' = [pc EXCEPT ![Sched] = "top"]
    /\ UNCHANGED <<enabled, cache, clock, schedState, ftok, agg, warn, disk, lk, taskLocals,
                   cur, todo, snap, calls, events, provVars, hist>>

\* The timed sleep is over: refresh_all_providers starts with
\* registry.read().await.
SchedWakeTimed ==
    /\ pc[Sched] = "sleep_timed"
    /\ sleepDur' = 0
    /\ lk' = [lk EXCEPT !["registry"] = Request(@, Sched, "r")]
    /\ pc' = [pc EXCEPT ![Sched] = "r_reg"]
    /\ hist' = [hist EXCEPT !.refreshAfterStop = IF running THEN @ ELSE Bump(@)]
    /\ UNCHANGED <<enabled, cache, clock, schedState, ftok, agg, warn, disk, taskLocals, cur, todo,
                   snap, calls, events, provVars>>

\* for (name, provider_arc) in registry.enabled_providers(): the Vec is built
\* once, under the registry read guard.
SchedEnabledProviders ==
    /\ pc[Sched] = "r_reg"
    /\ Holds(lk["registry"], Sched)
    /\ snap' = enabled_providers(enabled)
    /\ todo' = enabled_providers(enabled)
    /\ pc' = [pc EXCEPT ![Sched] = "r_loop"]
    /\ UNCHANGED <<enabled, cache, clock, schedState, ftok, agg, warn, disk, lk, taskLocals,
                   cur, sleepDur, calls, events, provVars, hist>>

\* The head of the for loop: the next provider's provider_arc.read().await, or
\* the end of refresh_all_providers, which drops the registry guard.
SchedNextProvider ==
    /\ pc[Sched] = "r_loop"
    /\ IF todo = {}
       THEN /\ lk' = [lk EXCEPT !["registry"] = Release(@, Sched)]
            /\ pc' = [pc EXCEPT ![Sched] = "top"]
            /\ prov' = [prov EXCEPT ![Sched] = NoProvider]
            /\ UNCHANGED todo
       ELSE \E p \in todo :
            /\ todo' = todo \ {p}
            /\ prov' = [prov EXCEPT ![Sched] = p]
            /\ lk' = [lk EXCEPT ![p] = Request(@, Sched, "r")]
            /\ pc' = [pc EXCEPT ![Sched] = "r_prov"]
    /\ UNCHANGED <<enabled, cache, clock, schedState, ftok, agg, warn, disk, flag, usage, cmdsLeft,
                   cur, sleepDur, snap, calls, events, provVars, hist>>

(* ------------------------------------------------------------------ *)
(* How a fetch_usage call ends for its caller                          *)
(* ------------------------------------------------------------------ *)

\* A task moves on inside fetch_usage: nothing of the caller changes.
Continue(t, next) ==
    /\ pc' = [pc EXCEPT ![t] = next]
    /\ UNCHANGED <<lk, events, usage, clock, prov, cache, ftok>>

\* The same, with the locals of ensure_valid_token written.
ContinueWith(t, next, f) ==
    /\ pc' = [pc EXCEPT ![t] = next]
    /\ ftok' = [ftok EXCEPT ![t] = f]
    /\ UNCHANGED <<lk, events, usage, clock, prov, cache>>

\* refresh_all_providers emitting provider-updated as soon as fetch_usage
\* returns Ok, before the cache is written.
SchedOnFetchResult_emits_first(p, r) ==
    IF r = "ok"
    THEN /\ usage' = [usage EXCEPT ![Sched] = clock]
         /\ clock' = clock + 1
         /\ events' = Append(events, <<"provider-updated", p>>)
         /\ lk' = lk
         /\ pc' = [pc EXCEPT ![Sched] = "r_ok"]
         /\ UNCHANGED <<prov, cache>>
    ELSE /\ events' = Append(events, <<"provider-error", p>>)
         /\ lk' = [lk EXCEPT ![p] = Release(@, Sched)]
         /\ pc' = [pc EXCEPT ![Sched] = "r_loop"]
         /\ UNCHANGED <<usage, clock, prov, cache>>

\* refresh_all_providers with `fetch_usage().await?`: the first error ends the
\* cycle, the guards are dropped on the way out.
SchedOnFetchResult_propagates(p, r) ==
    IF r = "ok"
    THEN /\ usage' = [usage EXCEPT ![Sched] = clock]
         /\ clock' = clock + 1
         /\ lk' = lk
         /\ pc' = [pc EXCEPT ![Sched] = "r_ok"]
         /\ UNCHANGED <<events, prov, cache>>
    ELSE /\ events' = Append(events, <<"provider-error", p>>)
         /\ lk' = [lk EXCEPT ![p] = Release(@, Sched),
                             !["registry"] = Release(@, Sched)]
         /\ pc' = [pc EXCEPT ![Sched] = "top"]
         /\ UNCHANGED <<usage, clock, prov, cache>>

\* refresh_all_providers, the match on fetch_usage's result.  Ok(usage): the
\* UsageData carries last_updated = Utc::now() of the moment fetch_usage built
\* it; the cache guard is asked for next (tasks run on several worker threads,
\* so another task can act in between).  Err(e): log, emit provider-error,
\* next provider; the cache is not touched.
SchedOnFetchResult(p, r) ==
    IF r = "ok"
    THEN /\ usage' = [usage EXCEPT ![Sched] = clock]
         /\ clock' = clock + 1
         /\ lk' = lk
         /\ pc' = [pc EXCEPT ![Sched] = "r_ok"]
         /\ UNCHANGED <<events, prov, cache>>
    ELSE /\ events' = Append(events, <<"provider-error", p>>)
         /\ lk' = [lk EXCEPT ![p] = Release(@, Sched)]
         /\ pc' = [pc EXCEPT ![Sched] = "r_loop"]
         /\ UNCHANGED <<usage, clock, prov, cache>>

\* refresh_provider with an Err arm that drops the provider's cache entry
\* (clear_provider) before it returns the error.
RefreshProviderOnFetchResult_clears(t, p, r) ==
    IF r = "ok"
    THEN /\ usage' = [usage EXCEPT ![t] = clock]
         /\ clock' = clock + 1
         /\ lk' = lk
         /\ pc' = [pc EXCEPT ![t] = "rp_ok"]
         /\ UNCHANGED <<events, prov, cache>>
    ELSE /\ lk' = [lk EXCEPT ![p] = Release(@, t)]
         /\ pc' = [pc EXCEPT ![t] = "idle"]
         /\ prov' = [prov EXCEPT ![t] = NoProvider]
         /\ cache' = [cache EXCEPT ![p] = 0]
         /\ UNCHANGED <<events, usage, clock>>

\* refresh_provider, the match on fetch_usage's result.  Ok(usage): the
\* UsageData carries last_updated = Utc::now() of the moment fetch_usage built
\* it; the cache guard is asked for next.  Err(e): the command returns the
\* error; the cache is not touched.
RefreshProviderOnFetchResult(t, p, r) ==
    IF r = "ok"
    THEN /\ usage' = [usage EXCEPT ![t] = clock]
         /\ clock' = clock + 1
         /\ lk' = lk
         /\ pc' = [pc EXCEPT ![t] = "rp_ok"]
         /\ UNCHANGED <<events, prov, cache>>
    ELSE /\ lk' = [lk EXCEPT ![p] = Release(@, t)]
         /\ pc' = [pc EXCEPT ![t] = "idle"]
         /\ prov' = [prov EXCEPT ![t] = NoProvider]
         /\ UNCHANGED <<events, usage, clock, cache>>

Return(t, p, r) ==
    /\ ftok' = [ftok EXCEPT ![t] = NoFetch]
    /\ IF t = Sched THEN SchedOnFetchResult(p, r)
       ELSE RefreshProviderOnFetchResult(t, p, r)

(* ------------------------------------------------------------------ *)
(* Provider::fetch_usage                                               *)
(* ------------------------------------------------------------------ *)

\* What the usage endpoint's answer becomes (copilot.rs fetch_usage,
\* gemini.rs fetch_quota): a transport failure, a status, or a body.
HttpResponses == {"200", "401", "429", "neterr"}

FetchResult(resp) ==
    CASE resp = "neterr" -> "Network"
      [] resp = "401" -> "TokenExpired"
      [] resp = "403" -> "AuthFailed"
      [] resp = "429" -> "RateLimited"
      [] OTHER -> "ok"

\* GeminiProvider::fetch_usage after ensure_valid_token: the cached project id,
\* or discover_project_id.
GeminiAfterToken == IF gem.project_id THEN "f_net" ELSE "f_disc"

\* fetch_usage up to its first network call.
\*   claude / antigravity: Err(NotConfigured).
\*   copilot: Err(AuthRequired) without a token, else the usage request.
\*   gemini: ensure_valid_token clones the credentials and compares
\*   expiry_date with the wall clock (needs_refresh); an expired token starts
\*   refresh_token, which needs the OAuth client (extract_oauth_credentials,
\*   NotConfigured if the companion CLI is not found); otherwise the cloned
\*   access token is the one fetch_usage goes on with.
FetchBegin(t, p) ==
    /\ UNCHANGED provVars
    /\ CASE p = "copilot" ->
              IF cop.token = NoToken THEN Return(t, p, "AuthRequired")
              ELSE Continue(t, "f_net")
         [] p = "gemini" ->
              IF gem.credentials = NoToken THEN Return(t, p, "AuthRequired")
              ELSE \E needs_refresh \in BOOLEAN :
                     LET f == [need |-> needs_refresh, use |-> gem.credentials]
                     IN  IF needs_refresh
                         THEN \E found \in BOOLEAN :
                                IF found THEN ContinueWith(t, "rt_net", f)
                                ELSE Return(t, p, "NotConfigured")
                         ELSE ContinueWith(t, GeminiAfterToken, f)
         [] OTHER -> Return(t, p, "NotConfigured")

\* refresh_token: the token endpoint answered.  On success the credentials in
\* memory are replaced (the new access token is named after the task that
\* obtained it) before anything is written to disk.
GeminiRefreshResponse(t) ==
    /\ pc[t] = "rt_net"
    /\ \E resp \in {"200", "400", "neterr"} :
         IF resp = "200"
         THEN /\ gem' = [gem EXCEPT !.credentials = t]
              /\ Continue(t, "rt_tmp")
              /\ UNCHANGED <<cop, kr, gfile>>
         ELSE /\ Return(t, "gemini", IF resp = "neterr" THEN "Network" ELSE "AuthFailed")
              /\ UNCHANGED provVars
    /\ UNCHANGED <<enabled, schedState, agg, warn, disk, flag, cmdsLeft, cur, sleepDur, todo, snap,
                   calls, hist>>

\* refresh_token: tokio::fs::write(&temp_path, json) opens oauth_creds.tmp
\* (created, or truncated if it is there) and then writes the document to it;
\* the two are separate steps of the file system.  A file that was opened
\* and not yet written is cut short: its content is "partial".
GeminiWriteTempBegin(t) ==
    /\ pc[t] = "rt_tmp"
    /\ \E ok \in BOOLEAN :
         IF ok
         THEN /\ gfile' = [gfile EXCEPT !.tmp = "partial"]
              /\ Continue(t, "rt_tmpw")
         ELSE /\ Return(t, "gemini", "Provider")
              /\ UNCHANGED gfile
    /\ UNCHANGED <<enabled, schedState, agg, warn, disk, flag, cmdsLeft, cur, sleepDur, todo, snap,
                   calls, hist, cop, kr, gem>>

\* Where a writer's open file is: still at the temporary path ("rt_tmpw"),
\* moved to the final path by somebody's rename ("rt_mainw"), or replaced
\* there by a later rename ("rt_gonew").
WriterPcs == {"rt_tmpw", "rt_mainw", "rt_gonew"}

\* The document of task t is written out (write_all) to the file t opened,
\* wherever that file is by now.  (A failing write is taken at the open.)
GeminiWriteTempEnd(t) ==
    /\ pc[t] \in WriterPcs
    /\ gfile' = CASE pc[t] = "rt_tmpw" -> [gfile EXCEPT !.tmp = t]
                   [] pc[t] = "rt_mainw" -> [gfile EXCEPT !.main = t]
                   [] OTHER -> gfile
    /\ Continue(t, "rt_ren")
    /\ UNCHANGED <<enabled, schedState, agg, warn, disk, flag, cmdsLeft, cur, sleepDur, todo, snap,
                   calls, hist, cop, kr, gem>>

\* rename(2) moves the file, and with it whoever has it open.
FollowRename(at) ==
    CASE at = "rt_tmpw" -> "rt_mainw"
      [] at = "rt_mainw" -> "rt_gonew"
      [] OTHER -> at

\* ensure_valid_token after refresh_token with `Ok(creds.access_token)`: the
\* token cloned before the refresh.
token_after_refresh_stale(cloned, current) == cloned

\* ensure_valid_token after refresh_token: the credentials are read again and
\* their access token is returned.
token_after_refresh(cloned, current) == current

\* refresh_token: tokio::fs::rename(&temp_path, &path); then ensure_valid_token
\* re-reads the credentials and returns, and fetch_usage goes on with the
\* token alone (needs_refresh is a local of ensure_valid_token).
GeminiRename(t) ==
    /\ pc[t] = "rt_ren"
    /\ \E ok \in BOOLEAN :
         IF ok /\ gfile.tmp # NoToken
         THEN /\ gfile' = [main |-> gfile.tmp, tmp |-> NoToken]
              /\ pc' = [u \in Tasks |-> IF u = t THEN GeminiAfterToken
                                        ELSE FollowRename(pc[u])]
              /\ ftok' = [ftok EXCEPT ![t] =
                     [need |-> FALSE,
                      use |-> token_after_refresh(@.use, gem.credentials)]]
              /\ UNCHANGED <<lk, events, usage, clock, prov, cache>>
         ELSE /\ Return(t, "gemini", "Provider")
              /\ UNCHANGED gfile
    /\ UNCHANGED <<enabled, schedState, agg, warn, disk, flag, cmdsLeft, cur, sleepDur, todo, snap,
                   calls, hist, cop, kr, gem>>

\* discover_project_id answered: the project id is cached, or the fetch fails.
GeminiDiscoverResponse(t) ==
    /\ pc[t] = "f_disc"
    /\ \E ok \in BOOLEAN :
         IF ok
         THEN /\ gem' = [gem EXCEPT !.project_id = TRUE]
              /\ Continue(t, "f_net")
         ELSE /\ Return(t, "gemini", "Provider")
              /\ UNCHANGED gem
    /\ UNCHANGED <<enabled, schedState, agg, warn, disk, flag, cmdsLeft, cur, sleepDur, todo, snap,
                   calls, hist, cop, kr, gfile>>

\* The usage / quota endpoint answered: fetch_usage returns.
FetchResponse(t) ==
    /\ pc[t] = "f_net"
    /\ \E resp \in HttpResponses :
         /\ FetchResult(resp) = "ok" => clock <= MaxClock
         /\ Return(t, prov[t], FetchResult(resp))
    /\ UNCHANGED <<enabled, schedState, agg, warn, disk, flag, cmdsLeft, cur, sleepDur, todo, snap,
                   calls, hist, provVars>>

(* ------------------------------------------------------------------ *)
(* refresh_all_providers, the body of the for loop                     *)
(* ------------------------------------------------------------------ *)

\* let provider = provider_arc.read().await; provider.fetch_usage()
SchedFetch ==
    /\ pc[Sched] = "r_prov"
    /\ Holds(lk[prov[Sched]], Sched)
    /\ calls' = Append(calls, prov[Sched])
    /\ FetchBegin(Sched, prov[Sched])
    /\ UNCHANGED <<enabled, schedState, agg, warn, disk, flag, cmdsLeft, cur, sleepDur, todo, snap, hist>>

\* CacheManager::set
cache_set(c, id, data) == [c EXCEPT ![id] = data]

\* send_warning without mark_sent.
send_warning_unmarked(w, key) ==
    [w EXCEPT !.raised = @ (+) SetToBag({key}),
              !.last = @ \cup {key[2]},
              !.shown = @ (+) SetToBag({key})]

\* notifications::send_warning: the key is title:body; under the tracker's
\* write guard a key already sent ends the call, any other key is marked sent
\* and then shown.  (raised and last record the call itself.)
send_warning(w, key) ==
    [w EXCEPT !.raised = @ (+) SetToBag({key}),
              !.last = @ \cup {key[2]},
              !.sent = @ \cup {key},
              !.shown = IF key \in w.sent THEN @ ELSE @ (+) SetToBag({key})]

\* check_usage_warnings with `>` for `>=` and no test of the weekly limit.
check_usage_warnings_strict(w0, provider, u) ==
    LET w == [w0 EXCEPT !.last = {}]
        w1 == IF u.session_limit > 0 /\ u.session_used * 100 > 80 * u.session_limit
              THEN send_warning(w, <<provider, "Usage Warning">>) ELSE w
    IN  IF u.weekly_used * 100 >= 90 * u.weekly_limit
        THEN send_warning(w1, <<provider, "Weekly Limit">>) ELSE w1

\* check_usage_warnings.  percent = (used as f64 / limit as f64) * 100.0 is
\* compared with 80.0 and 90.0; for figures below 2^53 that comparison is the
\* exact one written here.  The body carries the percentage formatted with
\* {:.0} (nearest integer, ties to even) and, for the session, used/limit.
check_usage_warnings(w0, provider, u) ==
    LET w == [w0 EXCEPT !.last = {}]
        fmt(used, limit) ==
            LET q == (used * 100) \div limit
                r == (used * 100) % limit
            IN  IF 2 * r > limit \/ (2 * r = limit /\ q % 2 = 1) THEN q + 1 ELSE q
        w1 == IF u.session_limit > 0 /\ u.session_used * 100 >= 80 * u.session_limit
              THEN send_warning(w, <<provider, "Usage Warning",
                                     fmt(u.session_used, u.session_limit),
                                     u.session_used, u.session_limit>>)
              ELSE w
    IN  IF u.weekly_limit > 0 /\ u.weekly_used * 100 >= 90 * u.weekly_limit
        THEN send_warning(w1, <<provider, "Weekly Limit",
                                fmt(u.weekly_used, u.weekly_limit)>>)
        ELSE w1

\* Ok(usage): let mut cache = cache.write().await, asked for with the registry
\* and provider read guards still held.
SchedCacheRequest ==
    /\ pc[Sched] = "r_ok"
    /\ lk' = [lk EXCEPT !["cache"] = Request(@, Sched, "w")]
    /\ pc' = [pc EXCEPT ![Sched] = "r_cache"]
    /\ UNCHANGED <<enabled, cache, clock, schedState, ftok, agg, warn, disk, taskLocals,
                   schedLocals, provVars, hist>>

\* Ok(usage), the guard granted: cache.set; cache.save; the warnings; the
\* provider-updated event; the provider guard is dropped at the end of the
\* iteration.
SchedCacheWrite ==
    /\ pc[Sched] = "r_cache"
    /\ Holds(lk["cache"], Sched)
    /\ cache' = cache_set(cache, prov[Sched], usage[Sched])
    /\ disk' \in save(disk, cache')
    /\ warn' = check_usage_warnings(warn, prov[Sched], warn.up)
    /\ events' = Append(events, <<"provider-updated", prov[Sched]>>)
    /\ lk' = [lk EXCEPT !["cache"] = Release(@, Sched),
                        ![prov[Sched]] = Release(@, Sched)]
    /\ usage' = [usage EXCEPT ![Sched] = 0]
    /\ pc' = [pc EXCEPT ![Sched] = "r_loop"]
    /\ UNCHANGED <<enabled, clock, schedState, ftok, agg, prov, flag, cmdsLeft, cur, sleepDur,
                   todo, snap, calls, provVars, hist>>

(* ------------------------------------------------------------------ *)
(* Commands (commands/mod.rs)                                          *)
(* ------------------------------------------------------------------ *)

\* A command that looks its provider up first:
\*   let provider_arc = { registry.read().await.get_provider(&provider) };
LookupStart(t, p, next) ==
    /\ pc[t] = "idle"
    /\ cmdsLeft > 0
    /\ cmdsLeft' = cmdsLeft - 1
    /\ lk' = [lk EXCEPT !["registry"] = Request(@, t, "r")]
    /\ prov' = [prov EXCEPT ![t] = p]
    /\ pc' = [pc EXCEPT ![t] = next]
    /\ UNCHANGED <<enabled, cache, clock, schedState, ftok, agg, warn, disk, flag, usage,
                   schedLocals, provVars, hist>>

\* The registry guard is dropped at the end of the block; then
\* p_arc.read().await or p_arc.write().await.
\* get_provider returns None for an id that is not registered, and the
\* command returns its not-found error.
LookupDone(t, here, mode, next) ==
    /\ pc[t] = here
    /\ Holds(lk["registry"], t)
    /\ IF get_provider(prov[t])
       THEN /\ lk' = [lk EXCEPT !["registry"] = Release(@, t),
                                ![prov[t]] = Request(@, t, mode)]
            /\ pc' = [pc EXCEPT ![t] = next]
            /\ UNCHANGED <<prov, hist>>
       ELSE /\ lk' = [lk EXCEPT !["registry"] = Release(@, t)]
            /\ pc' = [pc EXCEPT ![t] = "idle"]
            /\ prov' = [prov EXCEPT ![t] = NoProvider]
            /\ hist' = [hist EXCEPT !.status = NotFound]
    /\ UNCHANGED <<enabled, cache, clock, schedState, ftok, agg, warn, disk, flag, usage,
                   cmdsLeft, schedLocals, provVars>>

\* set_provider_enabled: registry.write().await
SetProviderEnabledStart(t, p, b) ==
    /\ pc[t] = "idle"
    /\ cmdsLeft > 0
    /\ cmdsLeft' = cmdsLeft - 1
    /\ lk' = [lk EXCEPT !["registry"] = Request(@, t, "w")]
    /\ prov' = [prov EXCEPT ![t] = p]
    /\ flag' = [flag EXCEPT ![t] = b]
    /\ pc' = [pc EXCEPT ![t] = "se_reg"]
    /\ UNCHANGED <<enabled, cache, clock, schedState, ftok, agg, warn, disk, usage,
                   schedLocals, provVars, hist>>

\* set_provider_enabled: registry.set_enabled(&provider, enabled); Ok(())
SetProviderEnabledWrite(t) ==
    /\ pc[t] = "se_reg"
    /\ Holds(lk["registry"], t)
    /\ enabled' = set_enabled(enabled, prov[t], flag[t])
    /\ lk' = [lk EXCEPT !["registry"] = Release(@, t)]
    /\ pc' = [pc EXCEPT ![t] = "idle"]
    /\ prov' = [prov EXCEPT ![t] = NoProvider]
    /\ flag' = [flag EXCEPT ![t] = FALSE]
    /\ UNCHANGED <<cache, clock, schedState, ftok, agg, warn, disk, usage, cmdsLeft, schedLocals,
                   provVars, hist>>

\* get_provider_auth_status
GetProviderAuthStatusStart(t, p) == LookupStart(t, p, "as_reg")

GetProviderAuthStatusLookup(t) == LookupDone(t, "as_reg", "r", "as_prov")

\* Provider::is_authenticated of each variant.
is_authenticated(p) ==
    CASE p = "copilot" -> cop.token # NoToken
      [] p = "gemini" -> gem.credentials # NoToken
      [] OTHER -> FALSE

\* get_provider_status with authenticated = true where no provider answers.
provider_status_assumed(en, id) ==
    ProviderStatus(is_enabled(en, id), ~get_provider(id) \/ is_authenticated(id))

\* The ProviderStatus get_provider_status builds: is_enabled of the registry
\* and is_authenticated of the provider, false for an id not registered.
provider_status(en, id) ==
    ProviderStatus(is_enabled(en, id), get_provider(id) /\ is_authenticated(id))

\* The ProviderStatus refresh_provider builds after a fetch that succeeded:
\* both flags are the literal true.
refresh_provider_status(en, id) == ProviderStatus(TRUE, TRUE)

\* get_provider_status: let cache = cache.read().await
GetProviderStatusStart(t, p) ==
    /\ pc[t] = "idle"
    /\ cmdsLeft > 0
    /\ cmdsLeft' = cmdsLeft - 1
    /\ lk' = [lk EXCEPT !["cache"] = Request(@, t, "r")]
    /\ prov' = [prov EXCEPT ![t] = p]
    /\ pc' = [pc EXCEPT ![t] = "ps_cache"]
    /\ UNCHANGED <<enabled, cache, clock, schedState, ftok, agg, warn, disk, flag, usage,
                   schedLocals, provVars, hist>>

\* get_provider_status: let registry_read = registry.read().await, with the
\* cache read guard held.
GetProviderStatusCache(t) ==
    /\ pc[t] = "ps_cache"
    /\ Holds(lk["cache"], t)
    /\ lk' = [lk EXCEPT !["registry"] = Request(@, t, "r")]
    /\ pc' = [pc EXCEPT ![t] = "ps_reg"]
    /\ UNCHANGED <<enabled, cache, clock, schedState, ftok, agg, warn, disk, taskLocals,
                   schedLocals, provVars, hist>>

\* get_provider_status: is_enabled; cache.get(..).cloned().unwrap_or_default();
\* then p_arc.read().await with both guards held, or, for an id that is not
\* registered, authenticated = false and the return.
GetProviderStatusRegistry(t) ==
    /\ pc[t] = "ps_reg"
    /\ Holds(lk["registry"], t)
    /\ IF get_provider(prov[t])
       THEN /\ lk' = [lk EXCEPT ![prov[t]] = Request(@, t, "r")]
            /\ pc' = [pc EXCEPT ![t] = "ps_prov"]
            /\ UNCHANGED <<prov, hist>>
       ELSE /\ lk' = [lk EXCEPT !["registry"] = Release(@, t),
                                !["cache"] = Release(@, t)]
            /\ pc' = [pc EXCEPT ![t] = "idle"]
            /\ prov' = [prov EXCEPT ![t] = NoProvider]
            /\ hist' = [hist EXCEPT !.status = provider_status(enabled, prov[t])]
    /\ UNCHANGED <<enabled, cache, clock, schedState, ftok, agg, warn, disk, flag, usage,
                   cmdsLeft, schedLocals, provVars>>

\* get_provider_status: p.is_authenticated().await and
\* Ok(ProviderStatus::from(..)); the three guards are dropped.
GetProviderStatusRead(t) ==
    /\ pc[t] = "ps_prov"
    /\ Holds(lk[prov[t]], t)
    /\ lk' = [lk EXCEPT ![prov[t]] = Release(@, t),
                        !["registry"] = Release(@, t),
                        !["cache"] = Release(@, t)]
    /\ pc' = [pc EXCEPT ![t] = "idle"]
    /\ prov' = [prov EXCEPT ![t] = NoProvider]
    /\ hist' = [hist EXCEPT !.status = provider_status(enabled, prov[t])]
    /\ UNCHANGED <<enabled, cache, clock, schedState, ftok, agg, warn, disk, flag, usage,
                   cmdsLeft, schedLocals, provVars>>

\* Provider::auth_status of each variant.
auth_status(p) ==
    CASE p = "copilot" ->
              IF cop.pending_device_code THEN "Authenticating"
              ELSE IF cop.token # NoToken THEN "Authenticated"
              ELSE "NotAuthenticated"
      [] p = "gemini" ->
              IF gem.credentials # NoToken THEN "Authenticated"
              ELSE "NotAuthenticated"
      [] OTHER -> "NotAuthenticated"

\* get_provider_auth_status: let p = p_arc.read().await; p.auth_status()
GetProviderAuthStatusRead(t) ==
    /\ pc[t] = "as_prov"
    /\ Holds(lk[prov[t]], t)
    /\ lk' = [lk EXCEPT ![prov[t]] = Release(@, t)]
    /\ pc' = [pc EXCEPT ![t] = "idle"]
    /\ prov' = [prov EXCEPT ![t] = NoProvider]
    /\ UNCHANGED <<enabled, cache, clock, schedState, ftok, agg, warn, disk, flag, usage, cmdsLeft,
                   schedLocals, provVars, hist>>

\* refresh_provider
RefreshProviderStart(t, p) == LookupStart(t, p, "rp_reg")

RefreshProviderLookup(t) == LookupDone(t, "rp_reg", "r", "rp_prov")

\* refresh_provider: let p = p_arc.read().await; p.fetch_usage()
RefreshProviderFetch(t) ==
    /\ pc[t] = "rp_prov"
    /\ Holds(lk[prov[t]], t)
    /\ FetchBegin(t, prov[t])
    /\ UNCHANGED <<enabled, schedState, agg, warn, disk, flag, cmdsLeft, cur, sleepDur, todo, snap,
                   calls, hist>>

\* refresh_provider, Ok(usage): let mut cache = cache.write().await, asked for
\* with the provider read guard still held.
RefreshProviderCacheRequest(t) ==
    /\ pc[t] = "rp_ok"
    /\ lk' = [lk EXCEPT !["cache"] = Request(@, t, "w")]
    /\ pc' = [pc EXCEPT ![t] = "rp_cache"]
    /\ UNCHANGED <<enabled, cache, clock, schedState, ftok, agg, warn, disk, taskLocals,
                   schedLocals, provVars, hist>>

\* refresh_provider, Ok(usage), the guard granted: cache.set; cache.save;
\* Ok(ProviderStatus::from((provider.as_str(), &usage, true, true))); both
\* guards are dropped on return.
RefreshProviderCacheWrite(t) ==
    /\ pc[t] = "rp_cache"
    /\ Holds(lk["cache"], t)
    /\ cache' = cache_set(cache, prov[t], usage[t])
    /\ disk' \in save(disk, cache')
    /\ lk' = [lk EXCEPT !["cache"] = Release(@, t),
                        ![prov[t]] = Release(@, t)]
    /\ usage' = [usage EXCEPT ![t] = 0]
    /\ prov' = [prov EXCEPT ![t] = NoProvider]
    /\ pc' = [pc EXCEPT ![t] = "idle"]
    /\ hist' = [hist EXCEPT !.status = refresh_provider_status(enabled, prov[t])]
    /\ UNCHANGED <<enabled, clock, schedState, ftok, agg, warn, flag, cmdsLeft, schedLocals,
                   provVars>>

(* ------------------------------------------------------------------ *)
(* The OS keychain (storage/keyring.rs)                                *)
(* ------------------------------------------------------------------ *)

\* keyring::Entry::delete_credential: what the keychain answers.
EntryDelete(entry, backendOk) ==
    IF ~backendOk THEN "PlatformFailure"
    ELSE IF entry = NoToken THEN "NoEntry"
    ELSE "Ok"

\* delete_credential without the NoEntry arm: an entry that is already gone is
\* an error.
delete_credential_strict(entry, backendOk) ==
    LET r == EntryDelete(entry, backendOk)
    IN  [ok |-> r = "Ok",
         entry |-> IF r = "Ok" THEN NoToken ELSE entry]

\* delete_credential: Ok and NoEntry ("already deleted") are both success.
delete_credential(entry, backendOk) ==
    LET r == EntryDelete(entry, backendOk)
    IN  [ok |-> r \in {"Ok", "NoEntry"},
         entry |-> IF r = "Ok" THEN NoToken ELSE entry]

\* store_credential
store_credential(entry, value, backendOk) ==
    IF backendOk THEN [ok |-> TRUE, entry |-> value]
    ELSE [ok |-> FALSE, entry |-> entry]

\* get_credential without the NoEntry arm: a missing entry is an error.
get_credential_strict(entry, backendOk) ==
    [ok |-> backendOk /\ entry # NoToken, value |-> IF backendOk THEN entry ELSE NoToken]

\* get_credential: Ok(Some(password)), Ok(None) for NoEntry, else the error.
get_credential(entry, backendOk) ==
    [ok |-> backendOk, value |-> IF backendOk THEN entry ELSE NoToken]

(* ------------------------------------------------------------------ *)
(* start_provider_auth, complete_provider_auth, logout_provider        *)
(* ------------------------------------------------------------------ *)

\* The last two auth operations completed on a provider, with their results
\* and with what the keychain did in them ("-" when it was not called).
Push(q, e) == IF Len(q) < 2 THEN Append(q, e) ELSE <<q[2], e>>

\* p.<method>().await.map_err(..): the command returns and the provider's
\* write guard is dropped.
AuthReturnFrom(h, t, op, res, store) ==
    /\ lk' = [lk EXCEPT ![prov[t]] = Release(@, t)]
    /\ pc' = [pc EXCEPT ![t] = "idle"]
    /\ prov' = [prov EXCEPT ![t] = NoProvider]
    /\ hist' = [h EXCEPT !.ops[prov[t]] =
                   Push(@, [op |-> op, res |-> res, store |-> store])]

AuthReturn(t, op, res, store) == AuthReturnFrom(hist, t, op, res, store)

\* The poll loop goes on to its next await with the history h.
PollContinue(h, t, next) ==
    /\ pc' = [pc EXCEPT ![t] = next]
    /\ hist' = h
    /\ UNCHANGED <<lk, prov>>

\* The method goes on to its next await, the write guard still held.
AuthContinue(t, next) ==
    /\ pc' = [pc EXCEPT ![t] = next]
    /\ UNCHANGED <<lk, prov, hist>>

authFrame == <<enabled, cache, clock, schedState, ftok, agg, warn, disk, flag, usage, cmdsLeft, schedLocals>>

\* Values the upstream authorization server answers with.
ServerIntervals == {10}
ServerTokens == {"t1", "t2"}
\* Bodies of the token endpoint's answers: an access token, an `error` code,
\* neither, or something that is no TokenResponse.
TokenResponses == {"token", "authorization_pending", "slow_down",
                   "expired_token", "access_denied", "empty", "unparseable"}

StartProviderAuthStart(t, p) == LookupStart(t, p, "sa_reg")

StartProviderAuthLookup(t) == LookupDone(t, "sa_reg", "w", "sa_prov")

\* start_auth.  copilot: the device-code request.  gemini: static
\* instructions.  claude / antigravity: Err(NotConfigured).
StartAuthBegin(t) ==
    /\ pc[t] = "sa_prov"
    /\ Holds(lk[prov[t]], t)
    /\ CASE prov[t] = "copilot" -> AuthContinue(t, "sa_net")
         [] prov[t] = "gemini" -> AuthReturn(t, "start_auth", "ok", "-")
         [] OTHER -> AuthReturn(t, "start_auth", "NotConfigured", "-")
    /\ UNCHANGED provVars
    /\ UNCHANGED authFrame

\* CopilotProvider::start_auth: the device-code endpoint answered.
CopilotDeviceCodeResponse(t) ==
    /\ pc[t] = "sa_net"
    /\ \E ok \in BOOLEAN :
         IF ok
         THEN \E iv \in ServerIntervals :
                /\ cop' = [cop EXCEPT !.pending_device_code = TRUE,
                                      !.poll_interval = iv]
                /\ AuthReturnFrom([hist EXCEPT !.negotiated = iv, !.slow = 0],
                                  t, "start_auth", "ok", "-")
         ELSE /\ UNCHANGED cop
              /\ AuthReturn(t, "start_auth", "Network", "-")
    /\ UNCHANGED <<kr, gem, gfile>>
    /\ UNCHANGED authFrame

\* pending_device_code.clone() in the place of take(): the code stays.
take_keeps(opt) == [value |-> opt, left |-> opt]

\* Option::take: the value, and what is left in its place.
take(opt) == [value |-> opt, left |-> FALSE]

CompleteProviderAuthStart(t, p) == LookupStart(t, p, "ca_reg")

CompleteProviderAuthLookup(t) == LookupDone(t, "ca_reg", "w", "ca_prov")

\* complete_auth.  copilot: pending_device_code.take(), AuthFailed when there
\* is none, else the poll loop.  gemini: load_credentials.  claude /
\* antigravity: Err(NotConfigured).
CompleteAuthBegin(t) ==
    /\ pc[t] = "ca_prov"
    /\ Holds(lk[prov[t]], t)
    /\ CASE prov[t] = "copilot" ->
              LET taken == take(cop.pending_device_code)
              IN  /\ cop' = [cop EXCEPT !.pending_device_code = taken.left]
                  /\ IF taken.value
                     THEN PollContinue([hist EXCEPT !.slow = 0], t, "ca_sleep")
                     ELSE AuthReturn(t, "complete_auth", "AuthFailed", "-")
         [] prov[t] = "gemini" ->
              /\ UNCHANGED cop
              /\ AuthContinue(t, "ca_load")
         [] OTHER ->
              /\ UNCHANGED cop
              /\ AuthReturn(t, "complete_auth", "NotConfigured", "-")
    /\ UNCHANGED <<kr, gem, gfile>>
    /\ UNCHANGED authFrame

\* The poll loop: tokio::time::sleep(poll_interval) is over, the token request
\* is sent.
CopilotPollSleep(t) ==
    /\ pc[t] = "ca_sleep"
    /\ AuthContinue(t, "ca_net")
    /\ UNCHANGED provVars
    /\ UNCHANGED authFrame

\* The poll loop: send().await is over.  A transport failure ends
\* complete_auth with Network; otherwise the answer's body is read next.
CopilotPollSend(t) ==
    /\ pc[t] = "ca_net"
    /\ \E ok \in BOOLEAN :
         IF ok
         THEN \E r \in TokenResponses :
                PollContinue([hist EXCEPT !.resp = r], t, "ca_body")
         ELSE AuthReturn(t, "complete_auth", "Network", "-")
    /\ UNCHANGED provVars
    /\ UNCHANGED authFrame

\* The match with expired_token handled like authorization_pending.
poll_outcome_expired_retries(r) ==
    CASE r = "unparseable" -> "Parse"
      [] r = "token" -> "save"
      [] r = "authorization_pending" -> "continue"
      [] r = "slow_down" -> "slow_down"
      [] r = "expired_token" -> "continue"
      [] r = "empty" -> "continue"
      [] OTHER -> "AuthFailed"

\* The match with `None => continue` turned into a failure.
poll_outcome_empty_fails(r) ==
    CASE r = "unparseable" -> "Parse"
      [] r = "token" -> "save"
      [] r = "authorization_pending" -> "continue"
      [] r = "slow_down" -> "slow_down"
      [] r = "expired_token" -> "AuthFailed"
      [] r = "empty" -> "AuthFailed"
      [] OTHER -> "AuthFailed"

\* The poll loop, what the body of an answer leads to: the token is saved,
\* the loop continues (with or without the 5 s added), or complete_auth
\* fails.
poll_outcome(r) ==
    CASE r = "unparseable" -> "Parse"
      [] r = "token" -> "save"
      [] r = "authorization_pending" -> "continue"
      [] r = "slow_down" -> "slow_down"
      [] r = "expired_token" -> "AuthFailed"
      [] r = "empty" -> "continue"
      [] OTHER -> "AuthFailed"

\* A back-off that doubles the interval.
slow_down_doubles(iv) == iv * 2

\* self.poll_interval += 5
slow_down(iv) == iv + 5

\* The poll loop: response.json().await is over and the body is matched.
CopilotPollResponse(t) ==
    /\ pc[t] = "ca_body"
    /\ LET out == poll_outcome(hist.resp)
           h == [hist EXCEPT !.resp = NoResponse]
       IN  CASE out = "save" ->
                  \E tok \in ServerTokens, backendOk \in BOOLEAN :
                    LET st == store_credential(kr, tok, backendOk)
                    IN  /\ kr' = st.entry
                        /\ IF st.ok
                           THEN /\ cop' = [cop EXCEPT !.token = tok]
                                /\ AuthReturnFrom(h, t, "complete_auth", "ok", "ok")
                           ELSE /\ UNCHANGED cop
                                /\ AuthReturnFrom(h, t, "complete_auth",
                                                  "Provider", "fail")
             [] out = "continue" ->
                  /\ PollContinue(h, t, "ca_sleep")
                  /\ UNCHANGED <<cop, kr>>
             [] out = "slow_down" ->
                  /\ slow_down(cop.poll_interval) <= MaxPollInterval
                  /\ cop' = [cop EXCEPT !.poll_interval = slow_down(@)]
                  /\ PollContinue([h EXCEPT !.slow = @ + 1], t, "ca_sleep")
                  /\ UNCHANGED kr
             [] OTHER ->
                  /\ AuthReturnFrom(h, t, "complete_auth", out, "-")
                  /\ UNCHANGED <<cop, kr>>
    /\ UNCHANGED <<gem, gfile>>
    /\ UNCHANGED authFrame

\* GeminiProvider::complete_auth: load_credentials has read the CLI's file (the
\* credentials in memory are replaced only when the file is there), then
\* credentials.is_some() decides.
GeminiCompleteAuthLoad(t) ==
    /\ pc[t] = "ca_load"
    /\ gem' = IF Parses(gfile.main)
              THEN [gem EXCEPT !.credentials = gfile.main] ELSE gem
    /\ AuthReturn(t, "complete_auth",
                  IF gem'.credentials # NoToken THEN "ok" ELSE "AuthFailed", "-")
    /\ UNCHANGED <<cop, kr, gfile>>
    /\ UNCHANGED authFrame

LogoutProviderStart(t, p) == LookupStart(t, p, "lo_reg")

\* logout_provider with p_arc.read() for p_arc.write().
LogoutProviderLookup_read(t) == LookupDone(t, "lo_reg", "r", "lo_prov")

LogoutProviderLookup(t) == LookupDone(t, "lo_reg", "w", "lo_prov")

\* logout.  copilot: token and pending code are cleared, then the keychain
\* entry is deleted.  gemini: every cached field is cleared.  claude /
\* antigravity: Ok(()).
LogoutRun(t) ==
    /\ pc[t] = "lo_prov"
    /\ Holds(lk[prov[t]], t)
    /\ CASE prov[t] = "copilot" ->
              \E backendOk \in BOOLEAN :
                LET d == delete_credential(kr, backendOk)
                IN  /\ cop' = [cop EXCEPT !.token = NoToken,
                                          !.pending_device_code = FALSE]
                    /\ kr' = d.entry
                    /\ UNCHANGED gem
                    /\ AuthReturn(t, "logout",
                                  IF d.ok THEN "ok" ELSE "Provider",
                                  IF backendOk THEN "ok" ELSE "fail")
         [] prov[t] = "gemini" ->
              /\ gem' = [gem EXCEPT !.credentials = NoToken, !.project_id = FALSE]
              /\ UNCHANGED <<cop, kr>>
              /\ AuthReturn(t, "logout", "ok", "-")
         [] OTHER ->
              /\ UNCHANGED <<cop, kr, gem>>
              /\ AuthReturn(t, "logout", "ok", "-")
    /\ UNCHANGED gfile
    /\ UNCHANGED authFrame

\* The companion CLI, outside the program: `gemini auth` writes the credential
\* file, or the user removes it.
GeminiCliWritesFile ==
    /\ gfile.main = NoToken
    /\ gfile' = [gfile EXCEPT !.main = "cli"]
    /\ UNCHANGED <<enabled, cache, clock, schedState, ftok, agg, warn, disk, lk, pc, taskLocals,
                   schedLocals, cop, kr, gem, hist>>

GeminiCliRemovesFile ==
    /\ gfile.main # NoToken
    /\ gfile' = [gfile EXCEPT !.main = NoToken]
    /\ UNCHANGED <<enabled, cache, clock, schedState, ftok, agg, warn, disk, lk, pc, taskLocals,
                   schedLocals, cop, kr, gem, hist>>

(* ------------------------------------------------------------------ *)
(* The program                                                         *)
(* ------------------------------------------------------------------ *)

\* scheduler.rs start, with refresh_all_providers: the steps of a timed cycle.
SchedulerTimed ==
    \/ SchedReadInterval
    \/ SchedCheckRunning
    \/ SchedSleep
    \/ SchedWakeTimed
    \/ SchedEnabledProviders
    \/ SchedNextProvider
    \/ SchedFetch
    \/ SchedCacheRequest
    \/ SchedCacheWrite

\* The awaits inside fetch_usage, for the tasks T that can be in one.
FetchSteps(T) ==
    \/ \E t \in T : GeminiRefreshResponse(t)
    \/ \E t \in T : GeminiWriteTempBegin(t)
    \/ \E t \in T : GeminiWriteTempEnd(t)
    \/ \E t \in T : GeminiRename(t)
    \/ \E t \in T : GeminiDiscoverResponse(t)
    \/ \E t \in T : FetchResponse(t)

SetProviderEnabled(T) ==
    \/ \E t \in T, p \in EnableInputs, b \in BOOLEAN : SetProviderEnabledStart(t, p, b)
    \/ \E t \in T : SetProviderEnabledWrite(t)

GetProviderAuthStatus(T) ==
    \/ \E t \in T, p \in CmdProviders : GetProviderAuthStatusStart(t, p)
    \/ \E t \in T : GetProviderAuthStatusLookup(t)
    \/ \E t \in T : GetProviderAuthStatusRead(t)

GetProviderStatus(T) ==
    \/ \E t \in T, p \in CmdProviders : GetProviderStatusStart(t, p)
    \/ \E t \in T : GetProviderStatusCache(t)
    \/ \E t \in T : GetProviderStatusRegistry(t)
    \/ \E t \in T : GetProviderStatusRead(t)

RefreshProvider(T) ==
    \/ \E t \in T, p \in CmdProviders : RefreshProviderStart(t, p)
    \/ \E t \in T : RefreshProviderLookup(t)
    \/ \E t \in T : RefreshProviderFetch(t)
    \/ \E t \in T : RefreshProviderCacheRequest(t)
    \/ \E t \in T : RefreshProviderCacheWrite(t)

StartProviderAuth(T) ==
    \/ \E t \in T, p \in AuthProviders : StartProviderAuthStart(t, p)
    \/ \E t \in T : StartProviderAuthLookup(t)
    \/ \E t \in T : StartAuthBegin(t)
    \/ \E t \in T : CopilotDeviceCodeResponse(t)

CompleteProviderAuth(T) ==
    \/ \E t \in T, p \in AuthProviders : CompleteProviderAuthStart(t, p)
    \/ \E t \in T : CompleteProviderAuthLookup(t)
    \/ \E t \in T : CompleteAuthBegin(t)
    \/ \E t \in T : CopilotPollSleep(t)
    \/ \E t \in T : CopilotPollSend(t)
    \/ \E t \in T : CopilotPollResponse(t)
    \/ \E t \in T : GeminiCompleteAuthLoad(t)

LogoutProvider(T) ==
    \/ \E t \in T, p \in AuthProviders : LogoutProviderStart(t, p)
    \/ \E t \in T : LogoutProviderLookup(t)
    \/ \E t \in T : LogoutRun(t)

\* The background scheduler at its default interval (nothing sets Manual, so
\* the Manual poll never ends), with the front end enabling providers,
\* refreshing them and asking for their auth status.
Next ==
    \/ SchedulerTimed
    \/ FetchSteps(Tasks)
    \/ SetProviderEnabled(CmdTasks)
    \/ GetProviderAuthStatus(CmdTasks)
    \/ RefreshProvider(CmdTasks)

Spec == Init /\ [][Next]_vars

\* The scheduler loop with its mutators, and the front end enabling and
\* disabling providers.
NextLoop ==
    \/ \E i \in IntervalInputs : set_interval(i)
    \/ stop
    \/ SchedulerTimed
    \/ SchedWakeManual
    \/ FetchSteps({Sched})
    \/ SetProviderEnabled({"c1"})

SpecLoop == Init /\ [][NextLoop]_vars

\* Bound: the commands issued beside the scheduler when the cache file or the
\* warnings are examined.
MaxEnables == 1

\* The scheduler beside one task that enables providers and one that refreshes
\* on demand.
NextRefresh ==
    \/ SchedulerTimed
    \/ FetchSteps(Tasks)
    \/ SetProviderEnabled({"c1"})
    \/ RefreshProvider({"c2"})

\* One command more than MaxEnables: a provider is enabled and then refreshed
\* on demand.
SpecRefresh ==
    /\ InitState("t1", TRUE, "cli", MaxEnables + 1)
    /\ agg = NoAgg /\ warn = NoWarn /\ disk = NoDisk
    /\ [][NextRefresh]_vars

\* The scheduler, set_provider_enabled and refresh_provider on a storage that
\* may or may not fail.
InitCache ==
    \E f \in BOOLEAN :
        /\ InitState("t1", TRUE, "cli", MaxEnables)
        /\ agg = NoAgg
        /\ warn = NoWarn
        /\ disk = [NoDisk EXCEPT !.faulty = f]

SpecCache == InitCache /\ [][NextRefresh]_vars

\* What the upstream of the providers may report as usage figures.
UsageInputs ==
    {[session_used |-> f[1], session_limit |-> f[2],
      weekly_used |-> f[3], weekly_limit |-> f[4]] :
        f \in {<<5, 0, 7, 0>>, <<79, 100, 7, 0>>, <<6, 5, 7, 0>>,
               <<4, 5, 89, 100>>, <<4, 5, 9, 10>>, <<79, 100, 9, 10>>}}

\* The upstream's figures, settled when the scheduler is about to call
\* fetch_usage; the UsageData of a successful fetch carries them.
UpstreamChanges ==
    /\ pc[Sched] = "r_prov"
    /\ \E u \in UsageInputs \ {warn.up} : warn' = [warn EXCEPT !.up = u]
    /\ UNCHANGED <<enabled, cache, clock, schedState, ftok, agg, disk, lk, pc, taskLocals,
                   schedLocals, provVars, hist>>

\* The scheduler with an upstream whose figures vary, beside
\* set_provider_enabled commands, one of them for an id nothing is
\* registered under.
InitWarn ==
    /\ InitState("t1", TRUE, "cli", MaxEnables)
    /\ agg = NoAgg
    /\ warn = NoWarn /\ disk = NoDisk

NextWarn ==
    \/ SchedulerTimed
    \/ FetchSteps({Sched})
    \/ SetProviderEnabled({"c1"})
    \/ \E b \in BOOLEAN : SetProviderEnabledStart("c1", "no-such-provider", b)
    \/ UpstreamChanges

SpecWarn == InitWarn /\ [][NextWarn]_vars

\* refresh_provider beside logout_provider and complete_provider_auth on the
\* CLI-delegated provider: what the holders of the provider's write guard can
\* do to a fetch_usage in progress.
NextReread ==
    \/ RefreshProvider(CmdTasks)
    \/ FetchSteps(CmdTasks)
    \/ \E t \in CmdTasks : LogoutProviderStart(t, "gemini")
    \/ \E t \in CmdTasks : LogoutProviderLookup(t)
    \/ \E t \in CmdTasks : LogoutRun(t)
    \/ \E t \in CmdTasks : CompleteProviderAuthStart(t, "gemini")
    \/ \E t \in CmdTasks : CompleteProviderAuthLookup(t)
    \/ \E t \in CmdTasks : CompleteAuthBegin(t)
    \/ \E t \in CmdTasks : GeminiCompleteAuthLoad(t)

SpecReread == Init /\ [][NextReread]_vars

\* The scheduler beside a task that asks for a provider's status and a task
\* that issues the commands taking a write guard (set_provider_enabled on the
\* registry, logout_provider on a provider) or refreshes on demand.
NextGuards ==
    \/ SchedulerTimed
    \/ FetchSteps({Sched, "c2"})
    \/ GetProviderStatus({"c1"})
    \/ SetProviderEnabled({"c2"})
    \/ RefreshProvider({"c2"})
    \/ LogoutProvider({"c2"})

SpecGuards == Init /\ [][NextGuards]_vars

\* Every command that names a provider, called with an id that nothing is
\* registered under, beside set_provider_enabled on the registered ones.
NextUnknown ==
    \/ SetProviderEnabled(CmdTasks)
    \/ \E t \in CmdTasks, b \in BOOLEAN : SetProviderEnabledStart(t, "no-such-provider", b)
    \/ \E t \in CmdTasks : StartProviderAuthStart(t, "no-such-provider")
    \/ \E t \in CmdTasks : StartProviderAuthLookup(t)
    \/ \E t \in CmdTasks : CompleteProviderAuthStart(t, "no-such-provider")
    \/ \E t \in CmdTasks : CompleteProviderAuthLookup(t)
    \/ \E t \in CmdTasks : RefreshProviderStart(t, "no-such-provider")
    \/ \E t \in CmdTasks : RefreshProviderLookup(t)
    \/ \E t \in CmdTasks : LogoutProviderStart(t, "no-such-provider")
    \/ \E t \in CmdTasks : LogoutProviderLookup(t)
    \/ \E t \in CmdTasks : GetProviderAuthStatusStart(t, "no-such-provider")
    \/ \E t \in CmdTasks : GetProviderAuthStatusLookup(t)
    \/ \E t \in CmdTasks : GetProviderStatusStart(t, "no-such-provider")
    \/ \E t \in CmdTasks : GetProviderStatusCache(t)
    \/ \E t \in CmdTasks : GetProviderStatusRegistry(t)

SpecUnknown == Init /\ [][NextUnknown]_vars

\* Two refresh_provider commands side by side, no scheduler: the fetch_usage
\* paths of the providers, and what concurrent fetches do to each other.
NextFetch ==
    \/ RefreshProvider(CmdTasks)
    \/ FetchSteps(CmdTasks)

SpecFetch == Init /\ [][NextFetch]_vars


\* The auth commands and the auth status query, from any start.
InitAuth ==
    \E entry \in {NoToken, "t1"}, readOk \in BOOLEAN,
       file \in {NoToken, "cli", "garbage"} :
        InitState(entry, readOk, file, MaxCommands) /\ agg = NoAgg /\ warn = NoWarn /\ disk = NoDisk

NextAuth ==
    \/ StartProviderAuth(CmdTasks)
    \/ CompleteProviderAuth(CmdTasks)
    \/ LogoutProvider(CmdTasks)
    \/ GetProviderAuthStatus(CmdTasks)
    \/ GeminiCliWritesFile
    \/ GeminiCliRemovesFile

SpecAuth == InitAuth /\ [][NextAuth]_vars

(* ------------------------------------------------------------------ *)
(* Vocabulary of the properties                                        *)
(* ------------------------------------------------------------------ *)

\* Positions inside fetch_usage, and those of them that wait for the network.
FetchPcs == {"f_net", "f_disc", "rt_net", "rt_tmp", "rt_ren"} \cup WriterPcs
NetworkPcs == {"f_net", "f_disc", "rt_net", "sa_net", "ca_net"}

\* Positions of refresh_token after the token endpoint answered: the
\* credentials in memory are written, the file is not yet renamed.
RefreshMutationPcs == {"rt_tmp", "rt_ren"} \cup WriterPcs

\* Positions where an auth operation is suspended with the provider's write
\* guard held.
AuthSuspendedPcs == {"sa_net", "ca_sleep", "ca_net", "ca_load"}

\* Positions of the scheduler inside refresh_all_providers.
SchedCyclePcs == {"r_reg", "r_loop", "r_prov", "r_ok", "r_cache"} \cup FetchPcs

Range(q) == {q[i] : i \in 1..Len(q)}

LastOp(p) == hist.ops[p][Len(hist.ops[p])]

LastIsLogout(p) == hist.ops[p] # <<>> /\ LastOp(p).op = "logout"

TwoLogouts(p) ==
    /\ Len(hist.ops[p]) = 2
    /\ hist.ops[p][1].op = "logout"
    /\ hist.ops[p][2].op = "logout"

(* ------------------------------------------------------------------ *)
(* C1 .. C10                                                           *)
(* ------------------------------------------------------------------ *)

\* C1: lock independence across providers.  While a task is inside
\* fetch_usage on provider A, a get_provider_auth_status on another provider
\* B never waits in the queue of a lock that the fetching task holds.
C1_LockIndependence ==
    \A t \in CmdTasks, s \in Tasks, l \in Locks :
        ( /\ pc[t] \in {"as_reg", "as_prov"}
          /\ pc[s] \in FetchPcs
          /\ prov[s] # prov[t]
          /\ Queued(lk[l], t) )
        => ~Holds(lk[l], s)

\* C2: a task that is inside a provider network call holds no guard on the
\* registry and none on the cache.
C2_NoGuardAcrossNetwork ==
    \A t \in Tasks :
        pc[t] \in NetworkPcs
        => ~Holds(lk["registry"], t) /\ ~Holds(lk["cache"], t)

\* C3: per-provider mutual exclusion.  No two tasks are at the same time in
\* the credential mutation of the silent token refresh (memory written,
\* temp file written, rename).
C3_RefreshExclusive ==
    \A t \in Tasks, s \in Tasks :
        (t # s /\ pc[t] \in RefreshMutationPcs) => pc[s] \notin RefreshMutationPcs

\* C4: an auth status query never blocks.  A get_provider_auth_status on P
\* that has asked for P's guard has it, also while start_auth or
\* complete_auth is suspended on P.
C4_AuthStatusNeverWaits ==
    \A t \in CmdTasks, s \in CmdTasks :
        ( /\ pc[t] = "as_prov"
          /\ pc[s] \in AuthSuspendedPcs
          /\ prov[s] = prov[t] )
        => Holds(lk[prov[t]], t)

\* C5: failure isolation within a cycle.  At the head of the for loop the
\* providers called so far are exactly the enabled providers no longer to do
\* (the enabled set being the one the cycle started with), and when
\* refresh_all_providers has returned every provider of the cycle was
\* called, whatever the earlier fetches returned.
C5_FailureIsolation ==
    /\ pc[Sched] = "r_loop"
       => /\ snap = enabled_providers(enabled)
          /\ Range(calls) = snap \ todo
    /\ pc[Sched] = "top" => Range(calls) = snap

\* C5 witness: a cycle over two providers ended, the first fetch had failed.
C5_Witness ==
    /\ pc[Sched] = "top"
    /\ Len(calls) = 2
    /\ Len(events) = 2
    /\ events[1][1] = "provider-error"

\* A step in which a fetch_usage call returns an error to its caller.
FetchFails(t) ==
    /\ pc[t] \in FetchPcs \cup {"r_prov", "rp_prov"}
    /\ pc'[t] \in {"r_loop", "idle"}

\* C6: the cache survives a failed refresh.  A step in which a fetch (of the
\* scheduler or of refresh_provider) fails leaves every cache entry as it was.
C6_CacheSurvivesFailure ==
    [][(\E t \in Tasks : FetchFails(t)) => cache' = cache]_vars

\* C6 witness: the scheduler's fetch of copilot has just failed and the cache
\* still holds copilot's earlier UsageData.
C6_Witness ==
    /\ pc[Sched] = "r_loop"
    /\ events # <<>>
    /\ events[Len(events)] = <<"provider-error", "copilot">>
    /\ cache["copilot"] > 0

\* C7: in a timed cycle fetch_usage is called at most once per provider, only
\* for providers of the cycle's enabled set, and the provider's flag is true
\* while it is called; when the cycle is over each enabled provider was called
\* once; the scheduler never sleeps inside a cycle (no back-off, no retry).
C7_OncePerEnabledProvider ==
    /\ Cardinality(Range(calls)) = Len(calls)
    /\ Range(calls) \subseteq snap
    /\ pc[Sched] \in {"r_prov"} \cup FetchPcs => is_enabled(enabled, prov[Sched])
    /\ pc[Sched] \in SchedCyclePcs => sleepDur = 0
    /\ (pc[Sched] = "r_loop" /\ todo = {})
       => Len(calls) = Cardinality(enabled_providers(enabled))

\* C7 witness: a cycle over two enabled providers is over, one of the fetches
\* failed, and nothing was retried.
C7_Witness ==
    /\ pc[Sched] = "r_loop"
    /\ todo = {}
    /\ Len(calls) = 2
    /\ \E i \in 1..Len(events) : events[i][1] = "provider-error"

\* C8: the mutators take effect within one cycle.  After stop() the loop
\* starts at most one more sleep and at most one more refresh, and it only
\* ends stopped; a cycle that runs with another interval than the one set
\* began before the last set_interval.
C8_MutatorsWithinOneCycle ==
    /\ hist.refreshAfterStop <= 1
    /\ hist.sleepAfterStop <= 1
    /\ pc[Sched] = "stopped" => ~running
    /\ (pc[Sched] \notin {"top", "stopped"} /\ cur # interval)
       => hist.readsSinceSet = 0

\* C8 witness: stop() came during a cycle that still refreshed once and then
\* ended, and that cycle ran with an interval older than the one set.
C8_Witness ==
    /\ pc[Sched] = "stopped"
    /\ hist.refreshAfterStop = 1
    /\ cur # interval

\* C9 as stated: the scheduler never invokes fetch_usage while the interval is
\* Manual.
C9_NoFetchWhileManual ==
    [][Len(calls') > Len(calls) => interval # "Manual"]_vars

\* C9 amended: a cycle that read Manual only sleeps the 10 s poll and goes
\* back to the top; a refresh that runs while the interval is Manual belongs
\* to a timed cycle that began before the switch.
C9_ManualCycleNoRefresh ==
    /\ cur = "Manual" => pc[Sched] \in {"top", "chk", "go", "sleep_manual", "stopped"}
    /\ pc[Sched] = "sleep_manual" => cur = "Manual" /\ sleepDur = ManualPollSecs
    /\ (pc[Sched] \in SchedCyclePcs /\ interval = "Manual")
       => hist.readsSinceSet = 0

\* C9 witness: the loop is in the Manual poll.
C9_Witness ==
    /\ pc[Sched] = "sleep_manual"
    /\ interval = "Manual"
    /\ sleepDur = ManualPollSecs

CompleteAuthPcs == {"ca_prov", "ca_sleep", "ca_net", "ca_body", "ca_load"}
LogoutPcs == {"lo_prov"}

\* A step in which task t's complete_auth or logout on provider p returns.
AuthOpReturns(t, p) ==
    /\ prov[t] = p
    /\ pc[t] \in CompleteAuthPcs \cup LogoutPcs
    /\ pc'[t] = "idle"

\* C11: token persistence is all-or-nothing for the device-flow provider.
\* A complete_auth or logout on copilot that starts with the token in memory
\* and the keychain entry in agreement (the same token, or both absent)
\* returns, with success or with an error, with the two in agreement.
C11_TokenAllOrNothing ==
    [][ \A t \in CmdTasks :
          (AuthOpReturns(t, "copilot") /\ cop.token = kr) => cop'.token = kr' ]_vars

\* A step in which task t's auth operation op on provider p returns Ok.
AuthOpReturnsOk(t, p, op) ==
    /\ prov[t] = p
    /\ pc[t] \in {"sa_prov", "sa_net"} \cup CompleteAuthPcs \cup LogoutPcs
    /\ pc'[t] = "idle"
    /\ LastOp(p)'.op = op
    /\ LastOp(p)'.res = "ok"

\* C12: the shape of the auth state machine.  On every provider, a start_auth
\* that returns Ok from NotAuthenticated leaves auth_status Authenticating, a
\* complete_auth that returns Ok leaves it Authenticated, and a logout that
\* returns Ok leaves it NotAuthenticated.
C12_AuthStateMachine ==
    [][ \A t \in CmdTasks, p \in Providers :
          /\ ( AuthOpReturnsOk(t, p, "start_auth")
               /\ auth_status(p) = "NotAuthenticated" )
             => auth_status(p)' = "Authenticating"
          /\ AuthOpReturnsOk(t, p, "complete_auth")
             => auth_status(p)' = "Authenticated"
          /\ AuthOpReturnsOk(t, p, "logout")
             => auth_status(p)' = "NotAuthenticated" ]_vars

\* C13: the outcomes of the device-flow complete_auth.  When the body of a
\* token-endpoint answer is matched: on authorization_pending and slow_down
\* the loop goes back to its sleep and token and keychain entry stay as they
\* are; on expired_token and on any other error code complete_auth returns
\* AuthFailed with token and keychain entry as they are; and complete_auth
\* returns Ok only on a body with an access token, with that token in the
\* keychain and in memory.
C13_CompleteAuthOutcomes ==
    [][ \A t \in CmdTasks :
          /\ (prov[t] = "copilot" /\ pc[t] = "ca_body" /\ pc'[t] # "ca_body")
             => /\ hist.resp \in {"authorization_pending", "slow_down"}
                   => /\ pc'[t] = "ca_sleep"
                      /\ cop'.token = cop.token /\ kr' = kr
                /\ hist.resp \in {"expired_token", "access_denied"}
                   => /\ pc'[t] = "idle"
                      /\ LastOp("copilot")'.op = "complete_auth"
                      /\ LastOp("copilot")'.res = "AuthFailed"
                      /\ cop'.token = cop.token /\ kr' = kr
          /\ AuthOpReturnsOk(t, "copilot", "complete_auth")
             => /\ pc[t] = "ca_body"
                /\ hist.resp = "token"
                /\ cop'.token \in ServerTokens
                /\ kr' = cop'.token ]_vars

\* C13 witness: a complete_auth that was told to slow down has returned Ok and
\* the token is in the keychain and in memory.
C13_Witness ==
    /\ hist.ops["copilot"] # <<>>
    /\ LastOp("copilot").op = "complete_auth"
    /\ LastOp("copilot").res = "ok"
    /\ hist.slow >= 1
    /\ cop.token \in ServerTokens
    /\ kr = cop.token

\* C14: device-flow back-off.  The poll interval is the interval negotiated by
\* the last successful start_auth plus 5 s for every slow_down of the
\* complete_auth that followed it; nothing else changes it.
C14_Backoff ==
    cop.poll_interval = hist.negotiated + 5 * hist.slow

\* C14 witness: in the poll loop, 10 s negotiated and two slow_down answers
\* give 20 s.
C14_Witness ==
    /\ \E t \in CmdTasks : prov[t] = "copilot" /\ pc[t] = "ca_sleep"
    /\ hist.negotiated = 10
    /\ hist.slow = 2
    /\ cop.poll_interval = 20

\* C15: an AuthFlow is consumed once.  complete_auth on copilot without a
\* pending device code returns AuthFailed at once (no sleep, no request) with
\* token and keychain entry as they are; a poll run starts only by taking the
\* pending code; and a pending code appears only when a start_auth returns Ok.
C15_AuthFlowConsumedOnce ==
    [][ /\ \A t \in CmdTasks :
             (prov[t] = "copilot" /\ pc[t] = "ca_prov" /\ pc'[t] # "ca_prov")
             => /\ ~cop.pending_device_code
                   => /\ pc'[t] = "idle"
                      /\ LastOp("copilot")'.op = "complete_auth"
                      /\ LastOp("copilot")'.res = "AuthFailed"
                      /\ cop'.token = cop.token /\ kr' = kr
                /\ pc'[t] = "ca_sleep"
                   => cop.pending_device_code /\ ~cop'.pending_device_code
        /\ (~cop.pending_device_code /\ cop'.pending_device_code)
           => \E t \in CmdTasks : AuthOpReturnsOk(t, "copilot", "start_auth") ]_vars

\* C15 witness: two complete_auth in a row on copilot, the first consumed the
\* code and the second failed for want of one.
C15_Witness ==
    /\ Len(hist.ops["copilot"]) = 2
    /\ hist.ops["copilot"][1].op = "complete_auth"
    /\ hist.ops["copilot"][1].res = "ok"
    /\ hist.ops["copilot"][2].op = "complete_auth"
    /\ hist.ops["copilot"][2].res = "AuthFailed"

\* A step in which task t's complete_auth on gemini returns.
GeminiCompleteAuthReturns(t) ==
    /\ prov[t] = "gemini"
    /\ pc[t] = "ca_load"
    /\ pc'[t] = "idle"

\* C18: complete_auth on the CLI-delegated provider returns Ok only if the
\* credential file is there and parses when it is read; with the file missing
\* or unparseable it returns AuthFailed and the provider is not authenticated
\* afterwards.
C18_CompleteAuthNeedsFile ==
    [][ \A t \in CmdTasks :
          GeminiCompleteAuthReturns(t)
          => /\ LastOp("gemini")'.res = "ok" => Parses(gfile.main)
             /\ ~Parses(gfile.main)
                => /\ LastOp("gemini")'.res = "AuthFailed"
                   /\ ~is_authenticated("gemini")' ]_vars

(* ------------------------------------------------------------------ *)
(* GeminiProvider::aggregate_quotas (gemini.rs)                        *)
(* ------------------------------------------------------------------ *)

\* Bound: the longest bucket list handed to aggregate_quotas.
MaxBuckets == 3

\* sort_by(|a, b| b.model_id.cmp(&a.model_id)): descending.
ModelOrder_descending == <<"modelY", "modelX">>

\* Model ids, in the order of String::cmp.
ModelOrder == <<"modelX", "modelY">>
Models == Range(ModelOrder)

\* remaining_fraction is an f64; the values used are multiples of 1/10 and
\* are written as their numerators.
FractionDenominator == 10
Fractions == {2, 3, 9}

\* QuotaBucket.reset_time: Option<String>.  "T1" and "T2" are RFC 3339
\* instants with T1 < T2, "bad" is a string that is not RFC 3339.
NoString == "null"
ResetStrings == {NoString, "T1", "T2", "bad"}

QuotaBucket == [model_id : Models, remaining_fraction : Fractions,
                reset_time : ResetStrings]

BucketLists == UNION {[1..n -> QuotaBucket] : n \in 0..MaxBuckets}

\* bucket.reset_time.as_ref().and_then(|s| parse_from_rfc3339(s).ok())
parse_from_rfc3339(s) ==
    CASE s = "T1" -> 1
      [] s = "T2" -> 2
      [] OTHER -> NoTime

\* The and_modify closure with `>` for `<`: the highest fraction is kept.
keep_highest(existing, fraction, reset) ==
    IF fraction > existing[1] THEN <<fraction, reset>> ELSE existing

\* The and_modify closure with the reset time minimised on its own.
keep_lowest_earliest(existing, fraction, reset) ==
    <<IF fraction < existing[1] THEN fraction ELSE existing[1],
      IF existing[2] = NoTime \/ (reset # NoTime /\ reset < existing[2])
      THEN reset ELSE existing[2]>>

\* The and_modify closure: an entry <<fraction, reset>> is replaced, both parts
\* together, only by a bucket with a strictly lower fraction.
keep_lowest(existing, fraction, reset) ==
    IF fraction < existing[1] THEN <<fraction, reset>> ELSE existing

\* `for bucket in buckets { model_map.entry(..).and_modify(..).or_insert(..) }`
RECURSIVE model_map(_, _)
model_map(buckets, m) ==
    IF buckets = <<>> THEN m
    ELSE LET bucket == Head(buckets)
             reset_time == parse_from_rfc3339(bucket.reset_time)
             id == bucket.model_id
         IN  model_map(Tail(buckets),
                 IF id \in DOMAIN m
                 THEN [m EXCEPT ![id] = keep_lowest(@, bucket.remaining_fraction,
                                                   reset_time)]
                 ELSE m @@ (id :> <<bucket.remaining_fraction, reset_time>>))

\* percent_left: fraction * 100.0
percent_left(fraction) == (fraction * 100) \div FractionDenominator

\* min over a non-empty set of numbers.
\* max() where min() is meant.
Max(S) == CHOOSE x \in S : \A y \in S : x >= y

Min(S) == CHOOSE x \in S : \A y \in S : x <= y

\* aggregate_quotas: (model_quotas sorted by model_id, overall_percent,
\* overall_reset).
aggregate_quotas(buckets) ==
    LET m == model_map(buckets, <<>>)
        ids == SelectSeq(ModelOrder, LAMBDA id : id \in DOMAIN m)
        model_quotas == [i \in 1..Len(ids) |->
                            [model_id |-> ids[i],
                             percent_left |-> percent_left(m[ids[i]][1]),
                             reset_time |-> m[ids[i]][2]]]
        percents == {model_quotas[i].percent_left : i \in 1..Len(ids)}
        resets == {model_quotas[i].reset_time : i \in 1..Len(ids)} \ {NoTime}
    IN  [model_quotas |-> model_quotas,
         overall_percent |-> IF percents = {} THEN DefaultPercent ELSE Min(percents),
         overall_reset |-> IF resets = {} THEN NoTime ELSE Min(resets)]

\* The UsageData on the scale its comment names ("100 = 100%"): the used part
\* as a percentage, not as hundredths of a percent.
gemini_usage_data_percent(r) ==
    [session_used |-> IF r.overall_percent > 100 THEN 0
                      ELSE 100 - r.overall_percent,
     session_limit |-> 10000,
     weekly_used |-> 0,
     weekly_limit |-> 0,
     reset_time |-> r.overall_reset,
     weekly_reset_time |-> NoTime,
     model_quotas |-> r.model_quotas]

\* GeminiProvider::fetch_usage, the UsageData it returns: the overall
\* percentage on a scale of 10000 ((100.0 - overall_percent) * 100.0 as u64,
\* a cast that saturates at 0), no weekly figures, overall_reset as reset_time.
gemini_usage_data(r) ==
    [session_used |-> IF r.overall_percent > 100 THEN 0
                      ELSE (100 - r.overall_percent) * 100,
     session_limit |-> 10000,
     weekly_used |-> 0,
     weekly_limit |-> 0,
     reset_time |-> r.overall_reset,
     weekly_reset_time |-> NoTime,
     model_quotas |-> r.model_quotas]

\* fetch_usage: Self::aggregate_quotas(quota.buckets) and the UsageData built
\* from its result.
AggregateQuotas ==
    /\ ~agg.done
    /\ LET r == aggregate_quotas(agg.buckets)
       IN  agg' = [buckets |-> agg.buckets, done |-> TRUE,
                   model_quotas |-> r.model_quotas,
                   overall_percent |-> r.overall_percent,
                   overall_reset |-> r.overall_reset,
                   usage |-> gemini_usage_data(r)]
    /\ UNCHANGED <<enabled, cache, clock, schedState, ftok, warn, disk, lk, pc, taskLocals,
                   schedLocals, provVars, hist>>

\* aggregate_quotas applied to every bucket list up to MaxBuckets.
InitAgg ==
    \E buckets \in BucketLists :
        /\ InitState("t1", TRUE, "cli", MaxCommands)
        /\ agg = [NoAgg EXCEPT !.buckets = buckets]
        /\ warn = NoWarn /\ disk = NoDisk

NextAgg == AggregateQuotas

SpecAgg == InitAgg /\ [][NextAgg]_vars

(* ------------------------------------------------------------------ *)
(* The device-flow poll loop with a runtime that runs it and an        *)
(* upstream that does not answer `pending` for ever                    *)
(* ------------------------------------------------------------------ *)

\* One task starts and completes authentication, another logs out.
NextPoll ==
    \/ StartProviderAuth({"c1"})
    \/ CompleteProviderAuth({"c1"})
    \/ LogoutProvider({"c2"})

\* tokio runs a task whose sleep or request is over (weak fairness of the
\* loop's steps); the upstream, asked again and again, at some time answers
\* with something other than authorization_pending, slow_down or an empty
\* body, or the request fails (strong fairness of such an answer): the device
\* code expires.
SpecPoll ==
    /\ Init
    /\ [][NextPoll]_vars
    /\ WF_vars(CopilotPollSleep("c1"))
    /\ WF_vars(CopilotPollSend("c1"))
    /\ WF_vars(CopilotPollResponse("c1"))
    /\ SF_vars(/\ CopilotPollSend("c1")
               /\ \/ pc'["c1"] = "idle"
                  \/ hist'.resp \in {"token", "expired_token", "access_denied",
                                     "unparseable"})

(* ------------------------------------------------------------------ *)
(* The calls of storage/keyring.rs on their own                         *)
(* ------------------------------------------------------------------ *)

\* One call of store_credential, get_credential or delete_credential, for one
\* of two keys, on a keychain that answers or fails.
KeyringCall ==
    /\ \E op \in {"store", "get", "delete"}, key \in DOMAIN agg.entries,
          value \in ServerTokens, backendOk \in BOOLEAN :
          LET e == agg.entries[key]
              ok == CASE op = "store" -> store_credential(e, value, backendOk).ok
                      [] op = "delete" -> delete_credential(e, backendOk).ok
                      [] OTHER -> get_credential(e, backendOk).ok
              entry == CASE op = "store" -> store_credential(e, value, backendOk).entry
                         [] op = "delete" -> delete_credential(e, backendOk).entry
                         [] OTHER -> e
          IN  agg' = [entries |-> [agg.entries EXCEPT ![key] = entry],
                      after |-> agg.op, op |-> op, key |-> key,
                      arg |-> IF op = "store" THEN value ELSE NoToken,
                      backendOk |-> backendOk, ok |-> ok,
                      got |-> IF op = "get" THEN get_credential(e, backendOk).value
                              ELSE NoToken]
    /\ UNCHANGED <<enabled, cache, clock, schedState, ftok, warn, disk, lk, pc, taskLocals,
                   schedLocals, provVars, hist>>

\* A keychain with no entry under either key, nothing called yet.
InitKeyring ==
    /\ InitState(NoToken, TRUE, "cli", MaxCommands)
    /\ agg = [entries |-> [k \in {"copilot_access_token", "claude_oauth_token"} |-> NoToken],
              after |-> "none", op |-> "none", key |-> "copilot_access_token",
              arg |-> NoToken, backendOk |-> TRUE, ok |-> TRUE, got |-> NoToken]
    /\ warn = NoWarn /\ disk = NoDisk

SpecKeyring == InitKeyring /\ [][KeyringCall]_vars

(* ------------------------------------------------------------------ *)
(* The status match of fetch_usage (copilot.rs) and fetch_quota        *)
(* (gemini.rs)                                                          *)
(* ------------------------------------------------------------------ *)

\* Bound: the length of a retry-after header value.
MaxHeaderLen == 2

\* The 429 arm with unwrap_or(0).
retry_after_or_zero(h) ==
    LET digit(c) == CASE c = "0" -> 0 [] c = "1" -> 1 [] c = "9" -> 9 [] OTHER -> 0 - 1
        digits == IF h.value # <<>> /\ h.value[1] = "+" THEN Tail(h.value) ELSE h.value
    IN  IF ~h.present \/ digits = <<>> \/ \E i \in DOMAIN digits : digit(digits[i]) < 0
        THEN 0
        ELSE IF Len(digits) = 1 THEN digit(digits[1])
        ELSE IF Len(digits) = 2 THEN 10 * digit(digits[1]) + digit(digits[2])
        ELSE 100 * digit(digits[1]) + 10 * digit(digits[2]) + digit(digits[3])

\* The 429 arm: headers().get("retry-after"), to_str, parse::<u64>,
\* unwrap_or(60).  u64's from_str takes decimal digits after an optional `+`;
\* an empty string, a `-`, a blank or any other character is an error.
retry_after(h) ==
    LET digit(c) == CASE c = "0" -> 0 [] c = "1" -> 1 [] c = "9" -> 9 [] OTHER -> 0 - 1
        digits == IF h.value # <<>> /\ h.value[1] = "+" THEN Tail(h.value) ELSE h.value
    IN  IF ~h.present \/ digits = <<>> \/ \E i \in DOMAIN digits : digit(digits[i]) < 0
        THEN 60
        ELSE IF Len(digits) = 1 THEN digit(digits[1])
        ELSE IF Len(digits) = 2 THEN 10 * digit(digits[1]) + digit(digits[2])
        ELSE 100 * digit(digits[1]) + 10 * digit(digits[2]) + digit(digits[3])

\* match response.status().as_u16(): what fetch_usage returns for a status.
\* `body` stands for going on to response.json(), the only way to a UsageData.
status_result(p, status, h) ==
    CASE status = 401 -> [err |-> "TokenExpired", n |-> 0, body |-> FALSE]
      [] status = 403 -> [err |-> "AuthFailed", n |-> 0, body |-> FALSE]
      [] status = 404 /\ p = "gemini" -> [err |-> "Provider", n |-> 0, body |-> FALSE]
      [] status = 429 -> [err |-> "RateLimited", n |-> retry_after(h), body |-> FALSE]
      [] OTHER -> [err |-> "none", n |-> 0, body |-> TRUE]

FetchStatus ==
    /\ ~agg.done
    /\ agg' = [agg EXCEPT !.done = TRUE,
                          !.result = status_result(agg.provider, agg.status, agg.header)]
    /\ UNCHANGED <<enabled, cache, clock, schedState, ftok, warn, disk, lk, pc, taskLocals,
                   schedLocals, provVars, hist>>

\* The status match applied to every status and retry-after header up to
\* MaxHeaderLen characters, for both providers that call the network.
InitStatus ==
    \E p \in CmdProviders, status \in {200, 401, 403, 404, 429, 500},
       h \in {[present |-> FALSE, value |-> <<>>]} \cup
             {[present |-> TRUE, value |-> v] :
                 v \in UNION {[1..n -> {"0", "1", "9", "+", "-", " ", "s"}] :
                                 n \in 0..MaxHeaderLen}} :
        /\ InitState("t1", TRUE, "cli", MaxCommands)
        /\ agg = [provider |-> p, status |-> status, header |-> h,
                  done |-> FALSE, result |-> <<>>]
        /\ warn = NoWarn /\ disk = NoDisk

SpecStatus == InitStatus /\ [][FetchStatus]_vars

(* ------------------------------------------------------------------ *)
(* C16: silent refresh ordering                                        *)
(* ------------------------------------------------------------------ *)

\* Inside refresh_token, from the token exchange to the rename.
ExchangePcs == {"rt_net", "rt_tmp", "rt_ren"} \cup WriterPcs

\* fetch_usage holds its token: project discovery and the quota request.
QuotaPcs == {"f_disc", "f_net"}

\* C16: a gemini fetch_usage enters refresh_token only when its expiry check
\* said "in the past"; a fetch whose token was not expired goes to the quota
\* request straight from the check, with the token it found stored and with no
\* exchange; a fetch whose token was expired reaches the quota request only
\* from the last step of a successful refresh_token, and with a token obtained
\* by an exchange; a token exchange that does not succeed ends fetch_usage;
\* the token does not change between discovery and the quota request.
C16_SilentRefreshOrdering ==
    [][\A t \in Tasks :
         /\ (prov'[t] = "gemini" /\ pc'[t] \in ExchangePcs /\ pc[t] \notin ExchangePcs)
               => ftok'[t].need /\ pc[t] \in {"r_prov", "rp_prov"}
         /\ (pc[t] \in ExchangePcs /\ pc'[t] \in ExchangePcs) => ftok'[t].need
         /\ (prov'[t] = "gemini" /\ pc'[t] \in QuotaPcs /\ pc[t] \notin QuotaPcs)
               => IF ftok[t].need
                  THEN pc[t] = "rt_ren" /\ ftok'[t].use \in Tasks
                  ELSE /\ pc[t] \in {"r_prov", "rp_prov"}
                       /\ ftok'[t].use = gem.credentials
                       /\ gem' = gem
         /\ (pc[t] = "rt_net" /\ pc'[t] \notin {"rt_net", "rt_tmp"})
               => pc'[t] \notin FetchPcs
         /\ (pc[t] = "rt_net" /\ pc'[t] = "rt_tmp") => gem'.credentials = t
         /\ (pc[t] \in QuotaPcs /\ pc'[t] \in QuotaPcs) => ftok'[t].use = ftok[t].use
      ]_vars

\* The first command of the run found the CLI's token expired and is at the
\* quota request with the token its own exchange obtained, which is also the
\* one in memory and on disk.
C16_Witness ==
    \E t \in CmdTasks :
        /\ cmdsLeft = MaxCommands - 1
        /\ prov[t] = "gemini" /\ pc[t] = "f_net"
        /\ ftok[t].use = t /\ gem.credentials = t /\ gfile.main = t

(* ------------------------------------------------------------------ *)
(* C17: the credential file at its final path                          *)
(* ------------------------------------------------------------------ *)

\* C17: at every point in time (so also at a point where the process stops
\* for good) ~/.gemini/oauth_creds.json holds a complete credential document,
\* the one the CLI wrote or one that a refresh wrote: never a partially
\* written one.
C17_FinalFileComplete == gfile.main \notin Unparseable

(* ------------------------------------------------------------------ *)
(* C19, C20: what aggregate_quotas returns                             *)
(* ------------------------------------------------------------------ *)

\* The positions of the buckets of one model, and their fractions.
BucketsOf(id) == {i \in 1..Len(agg.buckets) : agg.buckets[i].model_id = id}
FractionsOf(id) == {agg.buckets[i].remaining_fraction : i \in BucketsOf(id)}
Emitted == Range(agg.model_quotas)

\* C19: for every bucket list, one ModelQuota is emitted per model id that
\* occurs, its percent_left is 100 times the lowest remaining_fraction among
\* that model's buckets, and overall_percent is the lowest percent_left
\* emitted, or 100 when the list is empty.
C19_AggregationWorstCase ==
    agg.done =>
        /\ {q.model_id : q \in Emitted}
              = {agg.buckets[i].model_id : i \in 1..Len(agg.buckets)}
        /\ \A q \in Emitted :
              q.percent_left * FractionDenominator = 100 * Min(FractionsOf(q.model_id))
        /\ agg.overall_percent =
              IF agg.buckets = <<>> THEN 100
              ELSE Min({q.percent_left : q \in Emitted})

\* [(modelX, 0.9), (modelX, 0.3), (modelY, 0.2)] gives 30, 20 and overall 20.
C19_Witness ==
    /\ agg.done
    /\ Len(agg.buckets) = 3
    /\ [i \in 1..3 |-> <<agg.buckets[i].model_id, agg.buckets[i].remaining_fraction>>]
          = << <<"modelX", 9>>, <<"modelX", 3>>, <<"modelY", 2>> >>
    /\ [i \in 1..2 |-> <<agg.model_quotas[i].model_id, agg.model_quotas[i].percent_left>>]
          = << <<"modelX", 30>>, <<"modelY", 20>> >>
    /\ agg.overall_percent = 20

\* The first bucket of a model that has the model's lowest fraction.
WorstBucket(id) ==
    agg.buckets[Min({i \in BucketsOf(id) :
                        agg.buckets[i].remaining_fraction = Min(FractionsOf(id))})]

\* C20: for every model the emitted reset_time is the reset time (parsed; None
\* if absent or not RFC 3339) of the bucket with the model's lowest
\* remaining_fraction, the first such bucket if several share that fraction.
C20_ResetTravelsWithWorst ==
    agg.done =>
        \A q \in Emitted :
            q.reset_time = parse_from_rfc3339(WorstBucket(q.model_id).reset_time)

\* modelX with (0.9, T1) and (0.3, T2), T1 < T2: the emitted reset time is T2
\* although T1 is the earliest of the model's reset times.
C20_Witness ==
    /\ agg.done
    /\ agg.buckets = << [model_id |-> "modelX", remaining_fraction |-> 9, reset_time |-> "T1"],
                        [model_id |-> "modelX", remaining_fraction |-> 3, reset_time |-> "T2"] >>
    /\ agg.model_quotas[1].reset_time = parse_from_rfc3339("T2")
    /\ parse_from_rfc3339("T1") < parse_from_rfc3339("T2")

(* ------------------------------------------------------------------ *)
(* C21, C22: the list aggregate_quotas emits and overall_reset         *)
(* ------------------------------------------------------------------ *)

\* C21: the emitted list has one ModelQuota for each model id among the
\* buckets and for no other id, none twice, and is strictly ascending by
\* model id ("modelX" < "modelY").
C21_OnePerModelAscending ==
    agg.done =>
        LET ids == [i \in 1..Len(agg.model_quotas) |-> agg.model_quotas[i].model_id]
            given == {agg.buckets[i].model_id : i \in 1..Len(agg.buckets)}
        IN  /\ Range(ids) = given
            /\ Len(ids) = Cardinality(given)
            /\ ids \in {<<>>, <<"modelX">>, <<"modelY">>, <<"modelX", "modelY">>}

\* Buckets of modelY, modelX, modelY in that order give modelX, modelY.
C21_Witness ==
    /\ agg.done
    /\ [i \in 1..Len(agg.buckets) |-> agg.buckets[i].model_id]
          = <<"modelY", "modelX", "modelY">>
    /\ [i \in 1..Len(agg.model_quotas) |-> agg.model_quotas[i].model_id]
          = <<"modelX", "modelY">>

\* C22: overall_reset is None exactly when no emitted ModelQuota has a reset
\* time, and is otherwise one of the emitted reset times and not later than
\* any of them; the UsageData of fetch_usage carries it as reset_time.
C22_OverallResetEarliest ==
    agg.done =>
        LET resets == {agg.model_quotas[i].reset_time :
                          i \in 1..Len(agg.model_quotas)} \ {NoTime}
        IN  /\ agg.overall_reset = NoTime <=> resets = {}
            /\ resets # {} => /\ agg.overall_reset \in resets
                              /\ \A r \in resets : agg.overall_reset <= r
            /\ agg.usage.reset_time = agg.overall_reset

\* modelX resets at T2 and modelY at T1: overall_reset and the UsageData's
\* reset_time are T1.
C22_Witness ==
    /\ agg.done
    /\ Len(agg.model_quotas) = 2
    /\ agg.model_quotas[1].reset_time = parse_from_rfc3339("T2")
    /\ agg.model_quotas[2].reset_time = parse_from_rfc3339("T1")
    /\ agg.overall_reset = parse_from_rfc3339("T1")
    /\ agg.usage.reset_time = parse_from_rfc3339("T1")

\* ---------------------------------------------------------------------------
\* C23, C24: usage warnings raised by the scheduler and their de-duplication
\* ---------------------------------------------------------------------------

C25_RegistryInvariant ==
    /\ \A id \in Providers : ~is_enabled(enabled, id)
    /\ DOMAIN enabled = Providers
    /\ [][/\ DOMAIN enabled' = Providers
          /\ ~is_enabled(enabled', "no-such-provider")
          /\ \A id \in Providers :
                 (enabled'[id] /\ ~enabled[id]) =>
                     \E t \in CmdTasks : /\ pc[t] = "se_reg" /\ pc'[t] = "idle"
                                         /\ prov[t] = id /\ flag[t]
          /\ \A t \in CmdTasks :
                 (pc[t] = "se_reg" /\ pc'[t] = "idle" /\ prov[t] \notin Providers)
                     => enabled' = enabled]_vars

\* set_provider_enabled("copilot", true) has run: copilot is enabled, the
\* other three are still disabled.
C25_Witness ==
    /\ pc["c1"] = "idle"
    /\ cmdsLeft = 0
    /\ enabled_providers(enabled) = {"copilot"}
    /\ DOMAIN enabled = Providers

\* ---------------------------------------------------------------------------
\* C26: the cache file
\* ---------------------------------------------------------------------------

C27_StatusTranslation ==
    agg.done =>
        LET r == agg.result
            h == agg.header.value
            plain == IF h # <<>> /\ h[1] = "+" THEN Tail(h) ELSE h
            number == /\ agg.header.present
                      /\ plain # <<>>
                      /\ \A i \in DOMAIN plain : plain[i] \in {"0", "1", "9"}
            value(c) == IF c = "0" THEN 0 ELSE IF c = "1" THEN 1 ELSE 9
        IN  /\ agg.status \in {401, 403, 429} =>
                /\ ~r.body
                /\ r.err = FetchResult(ToString(agg.status))
            /\ agg.status = 401 => r.err = "TokenExpired"
            /\ agg.status = 403 => r.err = "AuthFailed"
            /\ agg.status = 429 =>
                /\ r.err = "RateLimited"
                /\ ~number => r.n = 60
                /\ (number /\ Len(plain) = 1) => r.n = value(plain[1])
                /\ (number /\ Len(plain) = 2) =>
                       r.n = 10 * value(plain[1]) + value(plain[2])
            /\ agg.status = 200 => r.body

\* gemini answered 429 with retry-after "19": RateLimited(19).
C27_Witness ==
    /\ agg.done
    /\ agg.provider = "gemini" /\ agg.status = 429 /\ agg.header = [present |-> TRUE, value |-> <<"1", "9">>]
    /\ agg.result = [err |-> "RateLimited", n |-> 19, body |-> FALSE]

\* ---------------------------------------------------------------------------
\* C28: the events of a scheduler cycle
\* ---------------------------------------------------------------------------

\* C28: every fetch result of a cycle is followed by exactly one event for its
\* provider: between fetches the events of the cycle name the providers
\* called, in order, and while a fetch or the cache write after it is under
\* way one event is outstanding.  provider-error is emitted in the step in
\* which the fetch fails and leaves the cache alone; provider-updated is
\* emitted in the step that sets the provider's cache entry to the fetched
\* UsageData and runs the threshold check.
C28_OneEventPerResult ==
    /\ [](/\ Len(events) =
               Len(calls) - (IF pc[Sched] \in FetchPcs \cup {"r_ok", "r_cache"} THEN 1 ELSE 0)
          /\ \A i \in 1..Len(events) : events[i][2] = calls[i])
    /\ [][(events' # events /\ events' # <<>>) =>
            LET p == prov[Sched]
                e == events'[Len(events')]
            IN  /\ events' = Append(events, e)
                /\ e[2] = p
                /\ e[1] \in {"provider-updated", "provider-error"}
                /\ e[1] = "provider-updated" =>
                       /\ pc[Sched] = "r_cache"
                       /\ usage[Sched] > 0
                       /\ cache'[p] = usage[Sched]
                       /\ warn'.last = check_usage_warnings(warn, p, warn.up).last
                /\ e[1] = "provider-error" =>
                       /\ pc[Sched] \in FetchPcs \cup {"r_prov"}
                       /\ cache' = cache]_vars

\* The fetch of copilot succeeded: its entry is cached, the check raised a
\* warning and the one event of the cycle is provider-updated.
C28_Witness ==
    /\ pc[Sched] = "r_loop"
    /\ calls = <<"copilot">>
    /\ events = <<<<"provider-updated", "copilot">>>>
    /\ cache["copilot"] > 0
    /\ warn.last # {}

\* ---------------------------------------------------------------------------
\* C29: the secret store
\* ---------------------------------------------------------------------------

\* C29: a get_credential that follows a successful store_credential of the
\* same key returns the stored value; one that follows a successful
\* delete_credential of the same key returns None, not an error; and
\* delete_credential of a key without an entry succeeds and changes nothing.
\* (The keychain answers in the call in question.)
C29_SecretStoreRoundTrip ==
    [][/\ (agg'.op = "get" /\ agg'.backendOk /\ agg'.key = agg.key /\ agg.ok)
          => /\ agg.op = "store" => (agg'.ok /\ agg'.got = agg.arg)
             /\ agg.op = "delete" => (agg'.ok /\ agg'.got = NoToken)
       /\ (agg'.op = "delete" /\ agg'.backendOk /\ agg.entries[agg'.key] = NoToken)
          => (agg'.ok /\ agg'.entries = agg.entries)]_vars

\* store_credential of "t1" succeeded and the get_credential after it
\* returned "t1", while the other key has no entry.
C29_Witness ==
    /\ agg.after = "store" /\ agg.op = "get"
    /\ agg.ok /\ agg.got = "t1"
    /\ agg.key = "copilot_access_token"
    /\ agg.entries["claude_oauth_token"] = NoToken

\* ---------------------------------------------------------------------------
\* C30: termination of the device-flow poll
\* ---------------------------------------------------------------------------

\* C30: a polling complete_auth holds the provider's write guard throughout
\* and leaves the loop only by its own step: when the request fails, or when
\* the body read is a token, expired_token, another error code or no
\* TokenResponse, and then it does return; on authorization_pending,
\* slow_down or an empty body it goes on polling, so no other operation ends
\* it.  With an upstream that does not answer `pending` for ever the call
\* returns (or the back-off has reached the model's MaxPollInterval).
C30_PollTermination ==
    /\ [](pc["c1"] \in {"ca_sleep", "ca_net", "ca_body"}
            => /\ prov["c1"] = "copilot"
               /\ Holds(lk["copilot"], "c1")
               /\ ~cop.pending_device_code)
    /\ [][pc["c1"] \in {"ca_sleep", "ca_net", "ca_body"} =>
            /\ pc'["c1"] \in {"ca_sleep", "ca_net", "ca_body", "idle"}
            /\ (pc'["c1"] = "idle" /\ pc["c1"] # "ca_net")
               => /\ pc["c1"] = "ca_body"
                  /\ hist.resp \in {"token", "expired_token", "access_denied",
                                    "unparseable"}
            /\ (pc["c1"] = "ca_body" /\ pc'["c1"] # "ca_body")
               => (pc'["c1"] = "idle" <=>
                     hist.resp \notin {"authorization_pending", "slow_down", "empty"})
            /\ pc'["c1"] = pc["c1"] => (cop' = cop /\ kr' = kr)]_vars
    /\ (pc["c1"] \in {"ca_sleep", "ca_net", "ca_body"})
          ~> \/ pc["c1"] = "idle"
             \/ /\ pc["c1"] = "ca_body"
                /\ hist.resp = "slow_down"
                /\ slow_down(cop.poll_interval) > MaxPollInterval

\* A poll that was told to slow down, polled again and then ended on
\* expired_token; the logout that had to wait for it has not run yet.
C30_Witness ==
    /\ hist.ops["copilot"] # <<>>
    /\ LastOp("copilot").op = "complete_auth"
    /\ LastOp("copilot").res = "AuthFailed"
    /\ hist.slow >= 1
    /\ pc["c1"] = "idle"
    /\ pc["c2"] = "lo_prov"
    /\ prov["c2"] = "copilot"

\* ---------------------------------------------------------------------------
\* Order of the bucket list
\* ---------------------------------------------------------------------------

\* C32: aggregate_quotas gives the same per-model percent_left and reset_time,
\* the same overall_percent and the same overall_reset for every permutation
\* of the bucket list, two buckets of one model with the same
\* remaining_fraction and different reset times included.
C32_OrderIndependent ==
    agg.done =>
        LET n == Len(agg.buckets)
            Perms == {f \in [1..n -> 1..n] : \A i, j \in 1..n : f[i] = f[j] => i = j}
        IN  \A f \in Perms :
                aggregate_quotas([i \in 1..n |-> agg.buckets[f[i]]])
                    = [model_quotas |-> agg.model_quotas,
                       overall_percent |-> agg.overall_percent,
                       overall_reset |-> agg.overall_reset]

\* ---------------------------------------------------------------------------
\* The gemini usage figures and the warnings
\* ---------------------------------------------------------------------------

C33_StatusAgreesWithIsAuthenticated ==
    \A p \in Providers :
        (auth_status(p) = "Authenticated") <=> is_authenticated(p)

\* ---------------------------------------------------------------------------
\* The credentials after a silent refresh
\* ---------------------------------------------------------------------------

\* C36: when refresh_token returns an error (the token endpoint refused, the
\* temp file could not be written, the rename failed) the credentials in
\* memory are the ones ensure_valid_token cloned before the refresh and the
\* credential file is as it was; and whenever refresh_token returns, with Ok
\* or with an error, the credentials in memory are those of the file.
C36_RefreshAllOrNothing ==
    [][ \A t \in Tasks :
          ( /\ pc[t] \in {"rt_net", "rt_tmp", "rt_ren"}
            /\ pc'[t] \notin {"rt_net", "rt_tmp", "rt_ren"} \cup WriterPcs )
          => /\ pc'[t] \in {"r_loop", "idle"}
                => /\ gem'.credentials = ftok[t].use
                   /\ gfile'.main = gfile.main
             /\ gem'.credentials = gfile'.main ]_vars

\* ---------------------------------------------------------------------------
\* ensure_valid_token, the credentials read again after the refresh
\* ---------------------------------------------------------------------------

\* C38: from the moment refresh_token has written the credentials in memory
\* until ensure_valid_token reads them again, they are present, whatever
\* logout, complete_auth or another fetch_usage is under way; the unwrap of
\* the re-read cannot fail, and the token fetch_usage goes on with after a
\* refresh is a token.
C38_RereadFindsCredentials ==
    \A t \in Tasks :
        /\ pc[t] \in {"rt_tmp", "rt_ren"} \cup WriterPcs => gem.credentials # NoToken
        /\ (pc[t] \in {"f_net", "f_disc"} /\ prov[t] = "gemini") => ftok[t].use # NoToken

\* C38 witness: a refresh is about to rename and read the credentials again
\* while a logout of the same provider waits for the write guard.
C38_Witness ==
    \E t \in CmdTasks, s \in CmdTasks :
        /\ pc[t] = "rt_ren"
        /\ pc[s] = "lo_prov"
        /\ prov[s] = "gemini"
        /\ ~Holds(lk["gemini"], s)

\* ---------------------------------------------------------------------------
\* The ProviderStatus of refresh_provider
\* ---------------------------------------------------------------------------

\* C34: the ProviderStatus that a successful refresh_provider(P) returns
\* carries the enabled and authenticated flags that get_provider_status(P)
\* reports in the same state, for a disabled P as for an enabled one, and
\* refresh_provider leaves P's enabled flag as it is.
C34_RefreshStatusFlags ==
    [][ \A t \in CmdTasks :
          (pc[t] = "rp_cache" /\ pc'[t] = "idle")
          => /\ hist'.status = provider_status(enabled, prov[t])
             /\ enabled' = enabled ]_vars

\* ---------------------------------------------------------------------------
\* Tasks that wait for each other
\* ---------------------------------------------------------------------------

\* C31: deadlock freedom.  In no reachable state is there a set of tasks each
\* of which waits, at a guard it has asked for, for another task of the set:
\* for a task that holds the guard in a mode that excludes the request, or for
\* a task that is ahead of it in the guard's first-in first-out queue.
C31_NoWaitCycle ==
    LET Ahead(L, t, u) ==
            \E i, j \in 1..Len(L.q) : i < j /\ L.q[i][1] = u /\ L.q[j][1] = t
        Excludes(L, t, u) ==
            \/ u \in L.wr
            \/ u \in L.rd /\ <<t, "w">> \in Range(L.q)
        WaitsFor(t, u) ==
            \E l \in Locks :
                Queued(lk[l], t) /\ (Ahead(lk[l], t, u) \/ Excludes(lk[l], t, u))
    IN  ~ \E S \in SUBSET Tasks \ {{}} : \A t \in S : \E u \in S : WaitsFor(t, u)

\* ---------------------------------------------------------------------------
\* Commands on an id that is not registered
\* ---------------------------------------------------------------------------

\* C39: a command called with a provider id that nothing is registered under
\* changes no state: registry, cache, cache file and the providers'
\* credentials stay as they are and no entry is added to registry or cache.
\* start_provider_auth, complete_provider_auth, refresh_provider,
\* logout_provider and get_provider_auth_status return the not-found error,
\* set_provider_enabled returns without one, and get_provider_status returns
\* enabled = false, authenticated = false.
C39_UnknownProviderNoEffect ==
    [][ \A t \in CmdTasks :
          (prov[t] \notin Providers \cup {NoProvider} /\ pc'[t] # pc[t])
          => /\ enabled' = enabled /\ DOMAIN enabled' = Providers
             /\ cache' = cache /\ DOMAIN cache' = Providers
             /\ disk' = disk
             /\ UNCHANGED provVars
             /\ pc'[t] = "idle"
                => /\ pc[t] \in {"sa_reg", "ca_reg", "rp_reg", "lo_reg", "as_reg"}
                      => hist'.status = NotFound
                   /\ pc[t] = "se_reg" => hist' = hist
                   /\ pc[t] = "ps_reg"
                      => hist'.status = ProviderStatus(FALSE, FALSE) ]_vars

\* C39 witness: with a registered provider enabled, get_provider_status of an
\* unregistered id has returned its all-false status.
C39_Witness ==
    /\ \E p \in Providers : enabled[p]
    /\ hist.status = ProviderStatus(FALSE, FALSE)
    /\ \A t \in CmdTasks : pc[t] = "idle"

\* ---------------------------------------------------------------------------
\* The age of a cache entry
\* ---------------------------------------------------------------------------

\* C35: the cache gets no older.  Over the scheduler's refreshes and the
\* refresh_provider commands, last_updated of a provider's cache entry never
\* decreases and an entry is never removed: the result of a fetch never
\* replaces an entry whose fetch was stamped later.
C35_CacheFreshnessMonotone ==
    [][ \A p \in Providers :
          cache[p] > 0 => cache'[p] >= cache[p] ]_vars

====
